---- MODULE Spec2Model ----
(***************************************************************************)
(* Asynchronous gamification pipeline of the EngageAI backend:             *)
(*   route handler -> awardXpUseCase -> BullMQ "gamification" queue ->     *)
(*   processGamificationJob -> users table / Redis leaderboard /           *)
(*   "notifications" queue / audit_logs, and the GET /ranking/global read  *)
(*   path with its database fallback.                                      *)
(*                                                                         *)
(* Every await of the TypeScript code is one atomic step; steps of         *)
(* different requests and jobs interleave freely.  An operation on Redis   *)
(* (queue or cache connection) takes an input ok \in BOOLEAN: FALSE is the *)
(* rejected promise of an unreachable server.                              *)
(***************************************************************************)
EXTENDS Integers, Sequences, FiniteSets, TLC

VARIABLES
  users,          \* users table: userId -> row (exists = FALSE: no row)
  xp0,            \* history: xp of every user before any job ran
  tokenRole,      \* the role claim of each user's access token
  moodEntries,    \* mood_entries rows of today, as the set of their userId
  feedPosts,      \* feed_posts rows, as records [req, userId]
  reqs,           \* HTTP requests in flight: position and outcome
  jobs,           \* BullMQ gamification jobs (job r is the one added by request r)
  leaderboard,    \* Redis sorted set engageai:leaderboard:global
  notifications,  \* jobs added to the BullMQ notifications queue
  auditLog,       \* audit_logs rows written by the gamification processor
  rk,             \* the GET /ranking/global request being served
  faults,         \* history: how many operations have failed and how many
                  \* users rows have been deleted
  lc,             \* a call of the level calculator: its arguments and results
  mission,        \* the daily_missions row
  completions,    \* daily_mission_completions rows of today, as the set of their userId
  reward,         \* the rewards row
  redeem,         \* POST /rewards/:id/redeem requests in flight
  redemptions,    \* reward_redemptions rows, as records [req, userId, starsCost]
  outage,         \* TRUE: Redis and the database are unreachable
  notifState,     \* BullMQ state of the notification jobs the worker has taken
  notifRows,      \* notifications table: rows [id, userId, type, status]
  cc,             \* a call of the leaderboard cache client: arguments and outcome
  progress,       \* course_progress rows: userId -> [exists, completedLessons]
  lessonReq,      \* POST /courses/:id/lessons/:lessonId/complete requests in flight
  awards,         \* gamification jobs added by the course handler
  participations  \* event_participations rows, as records [eventoId, userId]

\* the level calculator call, the daily missions and the rewards
levelVars == <<lc>>
missionVars == <<mission, completions>>
rewardVars == <<reward, redeem, redemptions>>
\* the notification worker, the cache client call, the courses and the events
notifyVars == <<notifState, notifRows>>
cacheVars == <<cc>>
courseVars == <<progress, lessonReq, awards>>
eventVars == <<participations>>

vars == <<users, xp0, tokenRole, moodEntries, feedPosts, reqs, jobs, leaderboard,
          notifications, auditLog, rk, faults, lc, mission, completions, reward,
          redeem, redemptions, outage, notifState, notifRows, cc, progress, lessonReq,
          awards, participations>>

(***************************************************************************)
(* Bounds                                                                  *)
(***************************************************************************)
MaxReqs == 2
MaxFaults == 1
MaxInFlight == 2
MaxOffset == 2
MaxLimit == 2
MaxDelta == 1
MaxEdits == 1

ReqIds == 1..MaxReqs
UserIds == {"u1", "u2", "u3"}
Roles == {"colaborador", "gestor", "super_admin"}

(***************************************************************************)
(* Program constants                                                       *)
(***************************************************************************)
LEVEL_THRESHOLDS == <<0, 500, 1500, 3000, 5000, 7500, 10500, 14000, 18000, 23000>>
MaxLevelIncrement == 5000
XP_registrar_humor == 20
STAR_registrar_humor == 0
XP_criar_post == 30
XP_participar_evento == 80
STAR_participar_evento == 3
STAR_criar_post == 1
GamificationAttempts == 3
GamificationConcurrency == 5
NotificationAttempts == 2

(***************************************************************************)
(* Level calculator                                                        *)
(***************************************************************************)
\* mutant: the comparison with the threshold is strict
RECURSIVE levelScan_Strict(_, _, _)
levelScan_Strict(xp, i, level) ==
  IF i < Len(LEVEL_THRESHOLDS)
    THEN IF xp > LEVEL_THRESHOLDS[i + 1]
           THEN levelScan_Strict(xp, i + 1, i + 1)
           ELSE level
    ELSE level

\* the for loop of calculateLevel: i is the 0-based index of the code
RECURSIVE levelScan(_, _, _)
levelScan(xp, i, level) ==
  IF i < Len(LEVEL_THRESHOLDS)
    THEN IF xp >= LEVEL_THRESHOLDS[i + 1]
           THEN levelScan(xp, i + 1, i + 1)
           ELSE level
    ELSE level

\* mutant: an xp past the last threshold is given the first level
calculateLevel_ResetsPastTable(xp) ==
  IF xp > LEVEL_THRESHOLDS[Len(LEVEL_THRESHOLDS)] THEN 1 ELSE levelScan(xp, 1, 1)

calculateLevel(xp) == levelScan(xp, 1, 1)

\* mutant: the threshold of the level itself, not of the next one
calculateXpForNextLevel_OwnThreshold(currentLevel) ==
  IF currentLevel >= Len(LEVEL_THRESHOLDS)
    THEN LEVEL_THRESHOLDS[Len(LEVEL_THRESHOLDS)] + MaxLevelIncrement
    ELSE LEVEL_THRESHOLDS[currentLevel]

calculateXpForNextLevel(currentLevel) ==
  IF currentLevel >= Len(LEVEL_THRESHOLDS)
    THEN LEVEL_THRESHOLDS[Len(LEVEL_THRESHOLDS)] + MaxLevelIncrement
    ELSE LEVEL_THRESHOLDS[currentLevel + 1]

\* mutant: the new level is taken from the xp before the award
checkLevelUp_StaleLevel(oldXp, newXp) ==
  [leveledUp |-> calculateLevel(newXp) > calculateLevel(oldXp),
   oldLevel  |-> calculateLevel(oldXp),
   newLevel  |-> calculateLevel(oldXp)]

\* mutant: a level that did not go down counts as a level-up
checkLevelUp_NotLower(oldXp, newXp) ==
  [leveledUp |-> calculateLevel(newXp) >= calculateLevel(oldXp),
   oldLevel  |-> calculateLevel(oldXp),
   newLevel  |-> calculateLevel(newXp)]

checkLevelUp(oldXp, newXp) ==
  [leveledUp |-> calculateLevel(newXp) > calculateLevel(oldXp),
   oldLevel  |-> calculateLevel(oldXp),
   newLevel  |-> calculateLevel(newXp)]

(***************************************************************************)
(* Rows and messages                                                       *)
(***************************************************************************)
NoUser == [exists |-> FALSE, role |-> "colaborador", isActive |-> FALSE,
           xp |-> 0, estrelas |-> 0, nivel |-> 0, xpProximo |-> 0]

\* a row as the users table creates it (column defaults)
NewUserRow(role) ==
  [exists |-> TRUE, role |-> role, isActive |-> TRUE,
   xp |-> 0, estrelas |-> 0, nivel |-> 1, xpProximo |-> 500]

\* a row of the seed: nivel and xpProximo are written by hand there
SeedUserRow(role) ==
  [exists |-> TRUE, role |-> role, isActive |-> TRUE,
   xp |-> 800, estrelas |-> 120, nivel |-> 3, xpProximo |-> 1500]

\* a user 20 xp short of level 2
NearLevelRow(role) ==
  [exists |-> TRUE, role |-> role, isActive |-> TRUE,
   xp |-> 480, estrelas |-> 0, nivel |-> 1, xpProximo |-> 500]

\* enqueue is what awardXpUseCase did; queueFailed records that
\* gamificationQueue.add was called and rejected
NoReq == [route |-> "none", pc |-> "idle", userId |-> "u1", status |-> 0,
          enqueue |-> "none", queueFailed |-> FALSE]

\* writes counts the ledger writes of the job, notifyFailed the rejected
\* notificationQueue.add calls of the job
NoJob == [state |-> "none", pc |-> "-", userId |-> "u1", xp |-> 0, stars |-> 0,
          attemptsMade |-> 0, oldXp |-> 0, newXp |-> 0, newStars |-> 0,
          oldLevel |-> 0, newLevel |-> 0, leveledUp |-> FALSE, newXpProximo |-> 0,
          writes |-> 0, notifyFailed |-> 0]

\* currentUserRank = 0 is the null of the response; cacheFailed is the set of
\* the cache operations of the request that were rejected
NoRanking == [pc |-> "idle", userId |-> "u1", offset |-> 0, limit |-> 1,
              fallback |-> FALSE, entries |-> <<>>, ranking |-> <<>>,
              currentUserRank |-> 0, status |-> 0, cacheFailed |-> {}]

EmptyLeaderboard == [scores |-> {}, ttl |-> FALSE]

\* no call of the level calculator is being looked at
NoCall == [pc |-> "idle", oldXp |-> 0, newXp |-> 0, currentLevel |-> 1,
           levelCheck |-> [leveledUp |-> FALSE, oldLevel |-> 0, newLevel |-> 0],
           xpForNext |-> 0, levelAtNext |-> 0, levelBelowNext |-> 0]

\* edits counts the updates of the row
NoMission == [exists |-> FALSE, isActive |-> FALSE, rewardXP |-> 0, rewardStars |-> 0,
              edits |-> 0]

\* quantidade = 0 is the null of the column: no limit of stock
NoReward == [exists |-> FALSE, isActive |-> FALSE, custo |-> 0, quantidade |-> 0]

NoRedeem == [pc |-> "idle", userId |-> "u1", custo |-> 0, status |-> 0]

NoProgress == [exists |-> FALSE, completedLessons |-> {}]

\* completedLessons is what the handler read from the progress row
NoLessonReq == [pc |-> "idle", userId |-> "u1", lessonId |-> "l1",
                completedLessons |-> {}, status |-> 0]

\* no call of the cache client is being looked at
NoCacheCall == [pc |-> "idle", op |-> "none", ok |-> TRUE, scores |-> {},
                userId |-> "u1", offset |-> 0, limit |-> 1,
                outcome |-> "none", entries |-> <<>>, rank |-> 0]

\* no outage, and the workers and handlers that a part of the program does not run
Quiescent ==
  /\ outage = FALSE
  /\ notifState = <<>>
  /\ notifRows = {}
  /\ cc = NoCacheCall
  /\ progress = [u \in UserIds |-> NoProgress]
  /\ lessonReq = [r \in ReqIds |-> NoLessonReq]
  /\ awards = {}
  /\ participations = {}

\* the tables and calls that a part of the program does not touch
Untouched ==
  /\ lc = NoCall
  /\ mission = NoMission
  /\ completions = {}
  /\ reward = NoReward
  /\ redeem = [r \in ReqIds |-> NoRedeem]
  /\ redemptions = {}

(***************************************************************************)
(* Initial state of the pipeline                                           *)
(***************************************************************************)
Init ==
  /\ users \in {[u1 |-> row, u2 |-> NewUserRow("gestor"), u3 |-> NoUser] :
                  row \in {NearLevelRow("colaborador"), SeedUserRow("colaborador")}}
  /\ xp0 = [u \in UserIds |-> users[u].xp]
  /\ tokenRole \in {[u1 |-> "colaborador", u2 |-> t2, u3 |-> "colaborador"] :
                      t2 \in {"colaborador", "gestor"}}
  /\ moodEntries = {}
  /\ feedPosts = {}
  /\ reqs = [r \in ReqIds |-> NoReq]
  /\ jobs = [r \in ReqIds |-> NoJob]
  /\ leaderboard = EmptyLeaderboard
  /\ notifications = {}
  /\ auditLog = {}
  /\ rk = NoRanking
  /\ faults = 0
  /\ Quiescent
  /\ Untouched

(***************************************************************************)
(* Queue client                                                            *)
(***************************************************************************)
\* mutant: the rejection of gamificationQueue.add is not caught
enqueueGamificationEvent_NoCatch(ok) == IF ok THEN "enqueued" ELSE "throw"

\* enqueueGamificationEvent: try { await gamificationQueue.add } catch { warn }
enqueueGamificationEvent(ok) == IF ok THEN "enqueued" ELSE "dropped"

\* mutant: the rejection of notificationQueue.add is not caught
enqueueNotification_NoCatch(ok) == IF ok THEN "enqueued" ELSE "throw"

\* enqueueNotification: try { await notificationQueue.add } catch { warn }
enqueueNotification(ok) == IF ok THEN "enqueued" ELSE "dropped"

\* updateLeaderboardScore: await redis.zadd, no catch
updateLeaderboardScore(ok) == IF ok THEN "written" ELSE "throw"

\* a failed operation is counted: at most MaxFaults failures and deletions
\* happen; during an outage every operation fails
Fault(ok) ==
  /\ outage => ~ok
  /\ ~ok => (outage \/ faults < MaxFaults)
  /\ faults' = IF ok \/ outage THEN faults ELSE faults + 1

\* mutant: every role passes the guard
GamificationGuard_AnyRole(userRole) == userRole \in Roles

\* GamificationGuard of awardXpUseCase
GamificationGuard(userRole) == userRole = "colaborador"

(***************************************************************************)
(* Route handlers that award XP.  request.user is the payload of the JWT   *)
(* (authenticate only verifies the signature): tokenRole[u] is the role    *)
(* the user had when the token was signed.                                 *)
(***************************************************************************)
\* awardXpUseCase(input): the guard, then one enqueue attempt
awardXpUseCase(userRole, ok) ==
  IF ~GamificationGuard(userRole) THEN "skipped" ELSE enqueueGamificationEvent(ok)

\* the xp and stars of the input: XP_REWARDS / STAR_REWARDS of the action, or
\* the rewardXP / rewardStars of the mission row the handler read
RewardXp(route) ==
  IF route = "mood" THEN XP_registrar_humor
  ELSE IF route = "feed" THEN XP_criar_post
  ELSE mission.rewardXP

RewardStars(route) ==
  IF route = "mood" THEN STAR_registrar_humor
  ELSE IF route = "feed" THEN STAR_criar_post
  ELSE mission.rewardStars

\* what the handler does once its business record is persisted:
\* await awardXpUseCase(...), and a rejection of it is the 500 of the error handler
AwardInput(r, u, route, xp, stars, ok) ==
  LET out == awardXpUseCase(tokenRole[u], ok) IN
  /\ ~ok => GamificationGuard(tokenRole[u])
  /\ Fault(ok)
  /\ reqs' = [reqs EXCEPT ![r] =
       IF out = "throw"
         THEN [route |-> route, pc |-> "done", userId |-> u, status |-> 500,
               enqueue |-> out, queueFailed |-> ~ok]
         ELSE [route |-> route, pc |-> "reply", userId |-> u, status |-> 0,
               enqueue |-> out, queueFailed |-> ~ok]]
  /\ jobs' = IF out = "enqueued"
       THEN [jobs EXCEPT ![r] =
              [NoJob EXCEPT !.state = "waiting", !.userId = u,
                            !.xp = xp, !.stars = stars]]
       ELSE jobs

\* the award of a handler whose input is fixed by its route
Award(r, u, route, ok) ==
  AwardInput(r, u, route, RewardXp(route), RewardStars(route), ok)

\* the request fails before awardXpUseCase is reached
Reject(r, u, route, status) ==
  /\ reqs' = [reqs EXCEPT ![r] =
       [route |-> route, pc |-> "done", userId |-> u, status |-> status,
        enqueue |-> "none", queueFailed |-> FALSE]]
  /\ UNCHANGED <<jobs, faults>>

\* a request whose handler or whose job has not finished
InFlight ==
  {q \in ReqIds : \/ reqs[q].pc = "reply"
                  \/ jobs[q].state \in {"waiting", "active"}
                  \/ redeem[q].pc \notin {"idle", "done"}}

\* requests are numbered in the order they arrive
Arrives(r) ==
  /\ reqs[r].pc = "idle" /\ redeem[r].pc = "idle"
  /\ \A q \in ReqIds : q < r => (reqs[q].pc # "idle" \/ redeem[q].pc # "idle")
  /\ Cardinality(InFlight) < MaxInFlight

\* POST /mood: findUnique of today's entry (409), moodEntry.create (foreign
\* key on userId), awardXpUseCase
MoodPost(r, u, ok) ==
  /\ Arrives(r)
  /\ IF u \in moodEntries
       THEN ok /\ Reject(r, u, "mood", 409) /\ moodEntries' = moodEntries
     ELSE IF ~users[u].exists
       THEN ok /\ Reject(r, u, "mood", 500) /\ moodEntries' = moodEntries
     ELSE Award(r, u, "mood", ok) /\ moodEntries' = moodEntries \cup {u}
  /\ UNCHANGED <<outage, notifyVars, cacheVars, courseVars, eventVars>>
  /\ UNCHANGED <<levelVars, missionVars, rewardVars>>
  /\ UNCHANGED <<users, xp0, tokenRole, feedPosts, leaderboard, notifications,
                 auditLog, rk>>

\* POST /feed: feedPost.create (foreign key on userId, or the database
\* unreachable), awardXpUseCase
FeedPost(r, u, ok) ==
  /\ Arrives(r)
  /\ IF ~users[u].exists \/ outage
       THEN ok /\ Reject(r, u, "feed", 500) /\ feedPosts' = feedPosts
     ELSE Award(r, u, "feed", ok) /\ feedPosts' = feedPosts \cup {[req |-> r, userId |-> u]}
  /\ UNCHANGED <<outage, notifyVars, cacheVars, courseVars, eventVars>>
  /\ UNCHANGED <<levelVars, missionVars, rewardVars>>
  /\ UNCHANGED <<users, xp0, tokenRole, moodEntries, leaderboard, notifications,
                 auditLog, rk>>

\* mutant: the handler answers only when the job of its event has finished
Reply_AwaitsJob(r) ==
  /\ reqs[r].pc = "reply"
  /\ reqs[r].enqueue = "enqueued" => jobs[r].state \in {"completed", "failed"}
  /\ reqs' = [reqs EXCEPT ![r].pc = "done", ![r].status = 201]
  /\ UNCHANGED <<outage, notifyVars, cacheVars, courseVars, eventVars>>
  /\ UNCHANGED <<levelVars, missionVars, rewardVars>>
  /\ UNCHANGED <<users, xp0, tokenRole, moodEntries, feedPosts, jobs, leaderboard,
                 notifications, auditLog, rk, faults>>

\* return reply.code(201).send(...)
Reply(r) ==
  /\ reqs[r].pc = "reply"
  /\ reqs' = [reqs EXCEPT ![r].pc = "done", ![r].status = 201]
  /\ UNCHANGED <<outage, notifyVars, cacheVars, courseVars, eventVars>>
  /\ UNCHANGED <<levelVars, missionVars, rewardVars>>
  /\ UNCHANGED <<users, xp0, tokenRole, moodEntries, feedPosts, jobs, leaderboard,
                 notifications, auditLog, rk, faults>>

(***************************************************************************)
(* Gamification worker: processGamificationJob, one action per await       *)
(***************************************************************************)
\* mutant: the stored role is not looked at
GuardOutcome_NoRoleCheck(user) ==
  IF ~user.exists THEN "not_found" ELSE "proceed"

\* mutant: without the test of a null user, reading user.role throws
GuardOutcome_NoNullCheck(user) ==
  IF ~user.exists THEN "throw"
  ELSE IF user.role # "colaborador" THEN "blocked"
  ELSE "proceed"

\* the two early returns after prisma.user.findUnique
GuardOutcome(user) ==
  IF ~user.exists THEN "not_found"
  ELSE IF user.role # "colaborador" THEN "blocked"
  ELSE "proceed"

\* mutant: the processor is run once more than the attempts option says
failAttempt_OneMore(job) ==
  [NoJob EXCEPT !.state = IF job.attemptsMade + 1 > GamificationAttempts
                            THEN "failed" ELSE "waiting",
                !.userId = job.userId, !.xp = job.xp, !.stars = job.stars,
                !.attemptsMade = job.attemptsMade + 1,
                !.writes = job.writes, !.notifyFailed = job.notifyFailed]

\* BullMQ: a throwing processor moves the job back to wait (after its backoff)
\* until attemptsMade reaches the attempts option, then to failed
failAttempt(job) ==
  [NoJob EXCEPT !.state = IF job.attemptsMade + 1 >= GamificationAttempts
                            THEN "failed" ELSE "waiting",
                !.userId = job.userId, !.xp = job.xp, !.stars = job.stars,
                !.attemptsMade = job.attemptsMade + 1,
                !.writes = job.writes, !.notifyFailed = job.notifyFailed]

\* the processor returned: the job is completed
completeJob(job) ==
  [NoJob EXCEPT !.state = "completed",
                !.userId = job.userId, !.xp = job.xp, !.stars = job.stars,
                !.attemptsMade = job.attemptsMade,
                !.writes = job.writes, !.notifyFailed = job.notifyFailed]

ActiveJobs == {j \in ReqIds : jobs[j].state = "active"}

\* the worker takes a waiting job; await prisma.user.findUnique; the guards;
\* oldXp, newXp, newStars, checkLevelUp, calculateXpForNextLevel
ProcessLookup(j, ok) ==
  /\ Fault(ok)
  /\ jobs[j].state = "waiting"
  /\ Cardinality(ActiveJobs) < GamificationConcurrency
  /\ LET job == jobs[j]
         user == users[job.userId]
         out == GuardOutcome(user)
         levelCheck == checkLevelUp(user.xp, user.xp + job.xp)
     IN jobs' = [jobs EXCEPT ![j] =
          IF ~ok \/ out = "throw" THEN failAttempt(job)
          ELSE IF out # "proceed" THEN completeJob(job)
          ELSE [job EXCEPT !.state = "active", !.pc = "update",
                           !.oldXp = user.xp,
                           !.newXp = user.xp + job.xp,
                           !.newStars = user.estrelas + job.stars,
                           !.oldLevel = levelCheck.oldLevel,
                           !.newLevel = levelCheck.newLevel,
                           !.leveledUp = levelCheck.leveledUp,
                           !.newXpProximo =
                              calculateXpForNextLevel(levelCheck.newLevel)]]
  /\ UNCHANGED <<outage, notifyVars, cacheVars, courseVars, eventVars>>
  /\ UNCHANGED <<levelVars, missionVars, rewardVars>>
  /\ UNCHANGED <<users, xp0, tokenRole, moodEntries, feedPosts, reqs, leaderboard,
                 notifications, auditLog, rk>>

\* await prisma.user.update({ xp, estrelas, nivel, xpProximo })
ProcessUpdate(j, ok) ==
  /\ Fault(ok)
  /\ jobs[j].state = "active" /\ jobs[j].pc = "update"
  /\ LET job == jobs[j] IN
     IF ok /\ users[job.userId].exists
       THEN /\ users' = [users EXCEPT ![job.userId] =
                 [@ EXCEPT !.xp = job.newXp, !.estrelas = job.newStars,
                           !.nivel = job.newLevel,
                           !.xpProximo = job.newXpProximo]]
            /\ jobs' = [jobs EXCEPT ![j] =
                 [job EXCEPT !.pc = "cache", !.writes = job.writes + 1]]
       ELSE /\ users' = users
            /\ jobs' = [jobs EXCEPT ![j] = failAttempt(job)]
  /\ UNCHANGED <<outage, notifyVars, cacheVars, courseVars, eventVars>>
  /\ UNCHANGED <<levelVars, missionVars, rewardVars>>
  /\ UNCHANGED <<xp0, tokenRole, moodEntries, feedPosts, reqs, leaderboard,
                 notifications, auditLog, rk>>

\* ZADD key score member
zadd(scores, userId, xp) ==
  {e \in scores : e.userId # userId} \cup {[userId |-> userId, xp |-> xp]}

\* mutant: the xp_gained notification is sent for every event
shouldNotifyXp_Always(xp) == TRUE

\* if (xp > 0)
shouldNotifyXp(xp) == xp > 0

\* the job record queued by enqueueNotification
XpGained(j, job) ==
  [job |-> j, attempt |-> job.attemptsMade + 1, userId |-> job.userId,
   type |-> "xp_gained", xp |-> job.xp, oldLevel |-> 0, newLevel |-> 0]

\* mutant: the second notification is given the type of the first
LevelUp_AsXpGained(j, job) ==
  [job |-> j, attempt |-> job.attemptsMade + 1, userId |-> job.userId,
   type |-> "xp_gained", xp |-> 0, oldLevel |-> job.oldLevel,
   newLevel |-> job.newLevel]

LevelUp(j, job) ==
  [job |-> j, attempt |-> job.attemptsMade + 1, userId |-> job.userId,
   type |-> "level_up", xp |-> 0, oldLevel |-> job.oldLevel,
   newLevel |-> job.newLevel]

\* await updateLeaderboardScore(userId, newXp);
\* if (xp > 0) await enqueueNotification(xp_gained);
\* if (levelCheck.leveledUp) await enqueueNotification(level_up).
\* The two enqueues touch the notifications queue only, which nothing else
\* reads here: they are taken in one step with the leaderboard update.
ProcessCache(j, ok, okXp, okLevel) ==
  /\ jobs[j].state = "active" /\ jobs[j].pc = "cache"
  /\ LET job == jobs[j]
         out == updateLeaderboardScore(ok)
         outXp == IF out # "throw" /\ shouldNotifyXp(job.xp)
                    THEN enqueueNotification(okXp) ELSE "none"
         outLevel == IF out # "throw" /\ outXp # "throw" /\ job.leveledUp
                       THEN enqueueNotification(okLevel) ELSE "none"
         failed == {o \in {1} : ~ok} \cup {o \in {2} : ~okXp} \cup {o \in {3} : ~okLevel}
         rejected == Cardinality(failed \ {1})
     IN /\ outage => ~ok
        /\ ~okXp => outXp # "none"
        /\ ~okLevel => outLevel # "none"
        /\ outage \/ faults + Cardinality(failed) <= MaxFaults
        /\ faults' = IF outage THEN faults ELSE faults + Cardinality(failed)
        /\ leaderboard' = IF out = "written"
             THEN [leaderboard EXCEPT !.scores = zadd(@, job.userId, job.newXp)]
             ELSE leaderboard
        /\ notifications' = notifications
             \cup {n \in {XpGained(j, job)} : outXp = "enqueued"}
             \cup {n \in {LevelUp(j, job)} : outLevel = "enqueued"}
        /\ jobs' = [jobs EXCEPT ![j] =
             IF "throw" \in {out, outXp, outLevel}
               THEN [failAttempt(job) EXCEPT !.notifyFailed = @ + rejected]
               ELSE [job EXCEPT !.pc = "audit", !.notifyFailed = @ + rejected]]
  /\ UNCHANGED <<outage, notifyVars, cacheVars, courseVars, eventVars>>
  /\ UNCHANGED <<levelVars, missionVars, rewardVars>>
  /\ UNCHANGED <<users, xp0, tokenRole, moodEntries, feedPosts, reqs, auditLog, rk>>

\* await prisma.auditLog.create (foreign key on actorId); the processor returns
ProcessAudit(j, ok) ==
  /\ Fault(ok)
  /\ jobs[j].state = "active" /\ jobs[j].pc = "audit"
  /\ LET job == jobs[j] IN
     IF ok /\ users[job.userId].exists
       THEN /\ auditLog' = auditLog \cup
                 {[job |-> j, attempt |-> job.attemptsMade + 1,
                   userId |-> job.userId, xp |-> job.xp, stars |-> job.stars,
                   newTotal |-> job.newXp, leveledUp |-> job.leveledUp]}
            /\ jobs' = [jobs EXCEPT ![j] = completeJob(job)]
       ELSE /\ auditLog' = auditLog
            /\ jobs' = [jobs EXCEPT ![j] = failAttempt(job)]
  /\ UNCHANGED <<outage, notifyVars, cacheVars, courseVars, eventVars>>
  /\ UNCHANGED <<levelVars, missionVars, rewardVars>>
  /\ UNCHANGED <<users, xp0, tokenRole, moodEntries, feedPosts, reqs, leaderboard,
                 notifications, rk>>

(***************************************************************************)
(* The store outside the program: a users row is deleted (the foreign keys *)
(* of mood_entries and feed_posts cascade)                                 *)
(***************************************************************************)
DeleteUser(u) ==
  /\ users[u].exists
  /\ faults < MaxFaults /\ faults' = faults + 1
  /\ users' = [users EXCEPT ![u] = NoUser]
  /\ moodEntries' = moodEntries \ {u}
  /\ feedPosts' = {p \in feedPosts : p.userId # u}
  /\ completions' = completions \ {u}
  /\ redemptions' = {p \in redemptions : p.userId # u}
  /\ notifRows' = {n \in notifRows : n.userId # u}
  /\ progress' = [progress EXCEPT ![u] = NoProgress]
  /\ participations' = {p \in participations : p.userId # u}
  /\ UNCHANGED <<outage, notifState, cacheVars, lessonReq, awards>>
  /\ UNCHANGED <<levelVars, mission, reward, redeem, xp0, tokenRole, reqs, jobs, leaderboard, notifications, auditLog, rk>>

(***************************************************************************)
(* The pipeline                                                            *)
(***************************************************************************)
Next ==
  \/ \E r \in ReqIds, u \in UserIds, ok \in BOOLEAN : MoodPost(r, u, ok)
  \/ \E r \in ReqIds, u \in UserIds, ok \in BOOLEAN : FeedPost(r, u, ok)
  \/ \E r \in ReqIds : Reply(r)
  \/ \E j \in ReqIds, ok \in BOOLEAN : ProcessLookup(j, ok)
  \/ \E j \in ReqIds, ok \in BOOLEAN : ProcessUpdate(j, ok)
  \/ \E j \in ReqIds, ok, okXp, okLevel \in BOOLEAN : ProcessCache(j, ok, okXp, okLevel)
  \/ \E j \in ReqIds, ok \in BOOLEAN : ProcessAudit(j, ok)
  \/ \E u \in UserIds : DeleteUser(u)

Spec == Init /\ [][Next]_vars

(***************************************************************************)
(* Leaderboard cache client                                                *)
(***************************************************************************)
\* Redis orders the members of equal score by their bytes
UserOrder == <<"u1", "u2", "u3">>
Idx(u) == CHOOSE i \in 1..Len(UserOrder) : UserOrder[i] = u

\* the sorted set from the highest score down (ZREVRANGEBYSCORE, ZREVRANK)
RECURSIVE zrevrange(_)
zrevrange(scores) ==
  IF scores = {} THEN <<>>
  ELSE LET m == CHOOSE e \in scores : \A f \in scores :
                  \/ e.xp > f.xp
                  \/ e.xp = f.xp /\ Idx(e.userId) >= Idx(f.userId)
       IN <<m>> \o zrevrange(scores \ {m})

\* ZREVRANGEBYSCORE key +inf -inf WITHSCORES LIMIT offset limit:
\* the flat reply member, score, member, score, ...
RECURSIVE withScores(_)
withScores(es) ==
  IF es = <<>> THEN <<>>
  ELSE <<es[1].userId, es[1].xp>> \o withScores(Tail(es))

zrevrangebyscore(scores, offset, limit) ==
  LET all == zrevrange(scores)
      last == IF offset + limit < Len(all) THEN offset + limit ELSE Len(all)
  IN withScores(SubSeq(all, offset + 1, last))

\* the for loop of getLeaderboard: i is the 0-based index of the code
RECURSIVE leaderboardEntries(_, _, _)
leaderboardEntries(results, i, offset) ==
  IF i < Len(results)
    THEN <<[userId |-> results[i + 1], xp |-> results[i + 2],
            rank |-> offset + (i \div 2) + 1]>>
         \o leaderboardEntries(results, i + 2, offset)
    ELSE <<>>

getLeaderboard(scores, offset, limit) ==
  leaderboardEntries(zrevrangebyscore(scores, offset, limit), 0, offset)

\* getUserRank: ZREVRANK is 0-based, null (here 0) for a member not in the set
getUserRank(scores, userId) ==
  LET all == zrevrange(scores)
      at == {i \in 1..Len(all) : all[i].userId = userId}
  IN IF at = {} THEN 0 ELSE ((CHOOSE i \in at : TRUE) - 1) + 1

(***************************************************************************)
(* GET /ranking/global                                                     *)
(***************************************************************************)
\* the sequences without repetition of the members of S
Orders(S) ==
  {s \in [1..Cardinality(S) -> S] : \A i, k \in 1..Cardinality(S) : i # k => s[i] # s[k]}

\* prisma.user.findMany({ where: { role: 'colaborador', isActive: true },
\*   orderBy: { xp: 'desc' }, skip, take }): every answer the database may give
\* (it orders rows of equal xp as it likes)
RECURSIVE skipRows(_, _)
skipRows(rows, n) ==
  IF n = 0 \/ rows = <<>> THEN rows ELSE skipRows(Tail(rows), n - 1)

RECURSIVE takeRows(_, _)
takeRows(rows, n) ==
  IF n = 0 \/ rows = <<>> THEN <<>> ELSE <<rows[1]>> \o takeRows(Tail(rows), n - 1)

\* mutant: the query has no skip
FallbackPages_NoSkip(offset, limit) ==
  LET where == {u \in UserIds : /\ users[u].exists
                                /\ users[u].role = "colaborador"
                                /\ users[u].isActive}
      orderBy == {s \in Orders(where) :
                    \A i \in 1..(Len(s) - 1) : users[s[i]].xp >= users[s[i + 1]].xp}
  IN {takeRows(s, limit) : s \in orderBy}

FallbackPages(offset, limit) ==
  LET where == {u \in UserIds : /\ users[u].exists
                                /\ users[u].role = "colaborador"
                                /\ users[u].isActive}
      orderBy == {s \in Orders(where) :
                    \A i \in 1..(Len(s) - 1) : users[s[i]].xp >= users[s[i + 1]].xp}
  IN {takeRows(skipRows(s, offset), limit) : s \in orderBy}

\* the pages a query may return
Pages == UNION {[1..n -> UserIds] : n \in 0..MaxLimit}

\* try { leaderboard = await getLeaderboard(offset, limit) } catch { }
RankingGetTopN(u, offset, limit, ok) ==
  /\ rk.pc \in {"idle", "done"}
  /\ LET entries == IF ok THEN getLeaderboard(leaderboard.scores, offset, limit)
                          ELSE <<>>
     IN rk' = [NoRanking EXCEPT !.pc = IF Len(entries) = 0 THEN "fallback" ELSE "enrich",
                                !.userId = u, !.offset = offset, !.limit = limit,
                                !.entries = entries,
                                !.cacheFailed = IF ok THEN {} ELSE {"getLeaderboard"}]
  /\ UNCHANGED <<outage, notifyVars, cacheVars, courseVars, eventVars>>
  /\ UNCHANGED <<levelVars, missionVars, rewardVars>>
  /\ UNCHANGED <<users, xp0, tokenRole, moodEntries, feedPosts, reqs, jobs,
                 leaderboard, notifications, auditLog, faults>>

\* if (leaderboard.length === 0): the findMany of the fallback and its map
RankingFallback(page) ==
  /\ rk.pc = "fallback"
  /\ page \in FallbackPages(rk.offset, rk.limit)
  /\ rk' = [rk EXCEPT !.pc = "populate", !.fallback = TRUE,
                      !.entries = [idx \in 1..Len(page) |->
                                     [userId |-> page[idx], xp |-> users[page[idx]].xp,
                                      rank |-> rk.offset + (idx - 1) + 1]]]
  /\ UNCHANGED <<outage, notifyVars, cacheVars, courseVars, eventVars>>
  /\ UNCHANGED <<levelVars, missionVars, rewardVars>>
  /\ UNCHANGED <<users, xp0, tokenRole, moodEntries, feedPosts, reqs, jobs,
                 leaderboard, notifications, auditLog, faults>>

RECURSIVE zaddAll(_, _)
zaddAll(scores, es) ==
  IF es = <<>> THEN scores
  ELSE zaddAll(zadd(scores, es[1].userId, es[1].xp), Tail(es))

\* try { pipeline.zadd for each user of the page; pipeline.expire; exec } catch { }
\* (EXPIRE of a key that does not exist sets nothing)
RankingPopulate(ok) ==
  /\ rk.pc = "populate"
  /\ leaderboard' = IF ok
       THEN [scores |-> zaddAll(leaderboard.scores, rk.entries),
             ttl |-> zaddAll(leaderboard.scores, rk.entries) # {}]
       ELSE leaderboard
  /\ rk' = [rk EXCEPT !.pc = "enrich",
                      !.cacheFailed = IF ok THEN @ ELSE @ \cup {"pipeline"}]
  /\ UNCHANGED <<outage, notifyVars, cacheVars, courseVars, eventVars>>
  /\ UNCHANGED <<levelVars, missionVars, rewardVars>>
  /\ UNCHANGED <<users, xp0, tokenRole, moodEntries, feedPosts, reqs, jobs,
                 notifications, auditLog, faults>>

\* mutant: when the cache is unavailable the rank is taken from the page
lookupCurrentUserRank_FromPage(ok) ==
  IF ok THEN getUserRank(leaderboard.scores, rk.userId)
  ELSE LET at == {i \in 1..Len(rk.entries) : rk.entries[i].userId = rk.userId}
       IN IF at = {} THEN 0 ELSE rk.entries[CHOOSE i \in at : TRUE].rank

\* let currentUserRank = null; try { currentUserRank = await getUserRank(id) } catch { }
lookupCurrentUserRank(ok) ==
  IF ok THEN getUserRank(leaderboard.scores, rk.userId) ELSE 0

\* the findMany by id, userMap, getUserRank in its try/catch, reply.send
RankingReply(ok) ==
  /\ rk.pc = "enrich"
  /\ rk' = [rk EXCEPT
       !.pc = "done",
       !.ranking = SelectSeq([i \in 1..Len(rk.entries) |->
                                [rank |-> rk.entries[i].rank,
                                 id |-> IF users[rk.entries[i].userId].exists
                                          THEN rk.entries[i].userId ELSE "",
                                 xp |-> users[rk.entries[i].userId].xp,
                                 isCurrentUser |-> rk.entries[i].userId = rk.userId]],
                             LAMBDA e : e.id # ""),
       !.currentUserRank = lookupCurrentUserRank(ok),
       !.status = 200,
       !.cacheFailed = IF ok THEN @ ELSE @ \cup {"getUserRank"}]
  /\ UNCHANGED <<outage, notifyVars, cacheVars, courseVars, eventVars>>
  /\ UNCHANGED <<levelVars, missionVars, rewardVars>>
  /\ UNCHANGED <<users, xp0, tokenRole, moodEntries, feedPosts, reqs, jobs,
                 leaderboard, notifications, auditLog, faults>>

\* the key reaches the end of LEADERBOARD_TTL
LeaderboardExpire ==
  /\ leaderboard.ttl
  /\ leaderboard' = EmptyLeaderboard
  /\ UNCHANGED <<outage, notifyVars, cacheVars, courseVars, eventVars>>
  /\ UNCHANGED <<levelVars, missionVars, rewardVars>>
  /\ UNCHANGED <<users, xp0, tokenRole, moodEntries, feedPosts, reqs, jobs,
                 notifications, auditLog, rk, faults>>

\* the users table when a ranking is asked for
RankingRows ==
  {NearLevelRow("colaborador"), SeedUserRow("colaborador"),
   [SeedUserRow("colaborador") EXCEPT !.isActive = FALSE],
   SeedUserRow("gestor"), NoUser}

InitRanking ==
  /\ users \in [UserIds -> RankingRows]
  /\ xp0 = [u \in UserIds |-> users[u].xp]
  /\ tokenRole = [u \in UserIds |-> users[u].role]
  /\ moodEntries = {}
  /\ feedPosts = {}
  /\ reqs = [r \in ReqIds |-> NoReq]
  /\ jobs = [r \in ReqIds |-> NoJob]
  /\ leaderboard = EmptyLeaderboard
  /\ notifications = {}
  /\ auditLog = {}
  /\ rk = NoRanking
  /\ faults = 0
  /\ Quiescent
  /\ Untouched

NextRanking ==
  \/ \E u \in UserIds, offset \in 0..MaxOffset, limit \in 1..MaxLimit, ok \in BOOLEAN :
       RankingGetTopN(u, offset, limit, ok)
  \/ \E page \in Pages : RankingFallback(page)
  \/ \E ok \in BOOLEAN : RankingPopulate(ok)
  \/ \E ok \in BOOLEAN : RankingReply(ok)
  \/ LeaderboardExpire

SpecRanking == InitRanking /\ [][NextRanking]_vars

(***************************************************************************)
(* Daily missions: a super_admin creates and edits the mission, users      *)
(* complete it and are awarded its rewardXP and rewardStars                *)
(***************************************************************************)
\* rewardXP: z.number().int().min(0).default(50), rewardStars: ...min(0).default(0)
CreateRewardXP == {0, 600}
CreateRewardStars == {0, 1}

\* rewardXP: z.number().int().optional()
UpdateRewardXP == {-600, 0, 600}

\* POST /daily-missions: prisma.dailyMission.create(body)
MissionCreate(rewardXP, rewardStars) ==
  /\ ~mission.exists
  /\ mission' = [exists |-> TRUE, isActive |-> TRUE, rewardXP |-> rewardXP,
                  rewardStars |-> rewardStars, edits |-> 0]
  /\ UNCHANGED <<outage, notifyVars, cacheVars, courseVars, eventVars>>
  /\ UNCHANGED <<users, xp0, tokenRole, moodEntries, feedPosts, reqs, jobs, leaderboard,
                 notifications, auditLog, rk, faults, lc, completions, rewardVars>>

\* PUT /daily-missions/:id: prisma.dailyMission.update({ where: { id }, data: body }),
\* body = { rewardXP } or { isActive }
MissionUpdate(field, rewardXP, isActive) ==
  /\ mission.exists
  /\ mission.edits < MaxEdits
  /\ mission' = IF field = "rewardXP"
                  THEN [mission EXCEPT !.rewardXP = rewardXP, !.edits = @ + 1]
                  ELSE [mission EXCEPT !.isActive = isActive, !.edits = @ + 1]
  /\ UNCHANGED <<outage, notifyVars, cacheVars, courseVars, eventVars>>
  /\ UNCHANGED <<users, xp0, tokenRole, moodEntries, feedPosts, reqs, jobs, leaderboard,
                 notifications, auditLog, rk, faults, lc, completions, rewardVars>>

\* POST /daily-missions/:id/complete: findUnique of the mission (404), findUnique
\* of today's completion (throws), dailyMissionCompletion.create (foreign key on
\* userId), awardXpUseCase with the rewards of the mission
MissionComplete(r, u, ok) ==
  /\ Arrives(r)
  /\ IF ~mission.exists \/ ~mission.isActive
       THEN ok /\ Reject(r, u, "mission", 404) /\ completions' = completions
     ELSE IF u \in completions \/ ~users[u].exists
       THEN ok /\ Reject(r, u, "mission", 500) /\ completions' = completions
     ELSE Award(r, u, "mission", ok) /\ completions' = completions \cup {u}
  /\ UNCHANGED <<outage, notifyVars, cacheVars, courseVars, eventVars>>
  /\ UNCHANGED <<users, xp0, tokenRole, moodEntries, feedPosts, leaderboard,
                 notifications, auditLog, rk, lc, mission, rewardVars>>

InitMission ==
  /\ users = [u1 |-> NewUserRow("colaborador"), u2 |-> NewUserRow("colaborador"),
              u3 |-> NoUser]
  /\ xp0 = [u \in UserIds |-> users[u].xp]
  /\ tokenRole = [u \in UserIds |-> users[u].role]
  /\ moodEntries = {}
  /\ feedPosts = {}
  /\ reqs = [r \in ReqIds |-> NoReq]
  /\ jobs = [r \in ReqIds |-> NoJob]
  /\ leaderboard = EmptyLeaderboard
  /\ notifications = {}
  /\ auditLog = {}
  /\ rk = NoRanking
  /\ faults = 0
  /\ Quiescent
  /\ Untouched

NextMission ==
  \/ \E rewardXP \in CreateRewardXP, rewardStars \in CreateRewardStars :
       MissionCreate(rewardXP, rewardStars)
  \/ \E rewardXP \in UpdateRewardXP : MissionUpdate("rewardXP", rewardXP, TRUE)
  \/ \E isActive \in BOOLEAN : MissionUpdate("isActive", 0, isActive)
  \/ \E r \in ReqIds, u \in UserIds, ok \in BOOLEAN : MissionComplete(r, u, ok)
  \/ \E r \in ReqIds : Reply(r)
  \/ \E j \in ReqIds, ok \in BOOLEAN : ProcessLookup(j, ok)
  \/ \E j \in ReqIds, ok \in BOOLEAN : ProcessUpdate(j, ok)
  \/ \E j \in ReqIds, ok, okXp, okLevel \in BOOLEAN : ProcessCache(j, ok, okXp, okLevel)
  \/ \E j \in ReqIds, ok \in BOOLEAN : ProcessAudit(j, ok)

SpecMission == InitMission /\ [][NextMission]_vars

(***************************************************************************)
(* Rewards: POST /rewards/:id/redeem, one action per await that reads or   *)
(* writes a table that changes                                             *)
(***************************************************************************)
\* custo: z.number().int().min(1)
RewardCosts == {100, 150}

\* the role check of the token (403), prisma.reward.findUnique (404),
\* prisma.rewardRedemption.count against quantidade (403)
RedeemStart(r, u) ==
  /\ Arrives(r)
  /\ redeem' = [redeem EXCEPT ![r] =
       IF tokenRole[u] # "colaborador"
         THEN [pc |-> "done", userId |-> u, custo |-> 0, status |-> 403]
       ELSE IF ~reward.exists \/ ~reward.isActive
         THEN [pc |-> "done", userId |-> u, custo |-> 0, status |-> 404]
       ELSE IF reward.quantidade # 0 /\ Cardinality(redemptions) >= reward.quantidade
         THEN [pc |-> "done", userId |-> u, custo |-> 0, status |-> 403]
       ELSE [pc |-> "stars", userId |-> u, custo |-> reward.custo, status |-> 0]]
  /\ UNCHANGED <<outage, notifyVars, cacheVars, courseVars, eventVars>>
  /\ UNCHANGED <<users, xp0, tokenRole, moodEntries, feedPosts, reqs, jobs, leaderboard,
                 notifications, auditLog, rk, faults, levelVars, missionVars, reward,
                 redemptions>>

\* prisma.user.findUnique (404); if (user.estrelas < reward.custo) throw (403)
RedeemCheckStars(r) ==
  /\ redeem[r].pc = "stars"
  /\ LET user == users[redeem[r].userId] IN
     redeem' = [redeem EXCEPT ![r] =
       IF ~user.exists THEN [@ EXCEPT !.pc = "done", !.status = 404]
       ELSE IF user.estrelas < redeem[r].custo THEN [@ EXCEPT !.pc = "done", !.status = 403]
       ELSE [@ EXCEPT !.pc = "deduct"]]
  /\ UNCHANGED <<outage, notifyVars, cacheVars, courseVars, eventVars>>
  /\ UNCHANGED <<users, xp0, tokenRole, moodEntries, feedPosts, reqs, jobs, leaderboard,
                 notifications, auditLog, rk, faults, levelVars, missionVars, reward,
                 redemptions>>

\* prisma.$transaction([rewardRedemption.create, user.update({ estrelas:
\* { decrement: reward.custo } })]); without the users row both are rolled back
RedeemDeduct(r) ==
  /\ redeem[r].pc = "deduct"
  /\ LET u == redeem[r].userId IN
     IF users[u].exists
       THEN /\ redemptions' = redemptions \cup
                 {[req |-> r, userId |-> u, starsCost |-> redeem[r].custo]}
            /\ users' = [users EXCEPT ![u].estrelas = @ - redeem[r].custo]
            /\ redeem' = [redeem EXCEPT ![r].pc = "notify"]
       ELSE /\ redemptions' = redemptions
            /\ users' = users
            /\ redeem' = [redeem EXCEPT ![r].pc = "done", ![r].status = 500]
  /\ UNCHANGED <<outage, notifyVars, cacheVars, courseVars, eventVars>>
  /\ UNCHANGED <<xp0, tokenRole, moodEntries, feedPosts, reqs, jobs, leaderboard,
                 notifications, auditLog, rk, faults, levelVars, missionVars, reward>>

\* await enqueueNotification(reward_redeemed); reply.code(201)
RedeemNotify(r, ok) ==
  /\ redeem[r].pc = "notify"
  /\ Fault(ok)
  /\ notifications' = notifications \cup
       {n \in {[job |-> r, attempt |-> 0, userId |-> redeem[r].userId,
                type |-> "reward_redeemed", xp |-> 0, oldLevel |-> 0, newLevel |-> 0]} :
          enqueueNotification(ok) = "enqueued"}
  /\ redeem' = [redeem EXCEPT ![r].pc = "done", ![r].status = 201]
  /\ UNCHANGED <<outage, notifyVars, cacheVars, courseVars, eventVars>>
  /\ UNCHANGED <<users, xp0, tokenRole, moodEntries, feedPosts, reqs, jobs, leaderboard,
                 auditLog, rk, levelVars, missionVars, reward, redemptions>>

InitRedeem ==
  /\ users = [u1 |-> SeedUserRow("colaborador"), u2 |-> NewUserRow("gestor"),
              u3 |-> NoUser]
  /\ xp0 = [u \in UserIds |-> users[u].xp]
  /\ tokenRole = [u1 |-> "colaborador", u2 |-> "gestor", u3 |-> "colaborador"]
  /\ moodEntries = {}
  /\ feedPosts = {}
  /\ reqs = [r \in ReqIds |-> NoReq]
  /\ jobs = [r \in ReqIds |-> NoJob]
  /\ leaderboard = EmptyLeaderboard
  /\ notifications = {}
  /\ auditLog = {}
  /\ rk = NoRanking
  /\ faults = 0
  /\ Quiescent
  /\ lc = NoCall
  /\ mission = NoMission
  /\ completions = {}
  /\ reward \in {[exists |-> e, isActive |-> TRUE, custo |-> c, quantidade |-> q] :
                   e \in BOOLEAN, c \in RewardCosts, q \in {0, 1}}
  /\ redeem = [r \in ReqIds |-> NoRedeem]
  /\ redemptions = {}

NextRedeem ==
  \/ \E r \in ReqIds, u \in UserIds : RedeemStart(r, u)
  \/ \E r \in ReqIds : RedeemCheckStars(r)
  \/ \E r \in ReqIds : RedeemDeduct(r)
  \/ \E r \in ReqIds, ok \in BOOLEAN : RedeemNotify(r, ok)
  \/ \E r \in ReqIds, u \in UserIds, ok \in BOOLEAN : FeedPost(r, u, ok)
  \/ \E r \in ReqIds : Reply(r)
  \/ \E j \in ReqIds, ok \in BOOLEAN : ProcessLookup(j, ok)
  \/ \E j \in ReqIds, ok \in BOOLEAN : ProcessUpdate(j, ok)
  \/ \E j \in ReqIds, ok, okXp, okLevel \in BOOLEAN : ProcessCache(j, ok, okXp, okLevel)
  \/ \E j \in ReqIds, ok \in BOOLEAN : ProcessAudit(j, ok)

SpecRedeem == InitRedeem /\ [][NextRedeem]_vars

(***************************************************************************)
(* The level calculator called on its own: the arguments are drawn around  *)
(* every threshold of the table                                            *)
(***************************************************************************)
\* the xp at the thresholds, at the value past the table, and MaxDelta around them
XpInputs ==
  {x \in UNION {{t - d, t + d} :
                  t \in {LEVEL_THRESHOLDS[l] : l \in 1..Len(LEVEL_THRESHOLDS)}
                        \cup {LEVEL_THRESHOLDS[Len(LEVEL_THRESHOLDS)] + MaxLevelIncrement},
                  d \in 0..MaxDelta} : x >= 0}

LevelInputs == 1..Len(LEVEL_THRESHOLDS)

InitLevel ==
  /\ users = [u1 |-> NewUserRow("colaborador"), u2 |-> NewUserRow("gestor"), u3 |-> NoUser]
  /\ xp0 = [u \in UserIds |-> users[u].xp]
  /\ tokenRole = [u \in UserIds |-> users[u].role]
  /\ moodEntries = {}
  /\ feedPosts = {}
  /\ reqs = [r \in ReqIds |-> NoReq]
  /\ jobs = [r \in ReqIds |-> NoJob]
  /\ leaderboard = EmptyLeaderboard
  /\ notifications = {}
  /\ auditLog = {}
  /\ rk = NoRanking
  /\ faults = 0
  /\ Quiescent
  /\ lc \in {[NoCall EXCEPT !.pc = "args", !.oldXp = a, !.newXp = b, !.currentLevel = l] :
               a \in XpInputs, b \in XpInputs, l \in LevelInputs}
  /\ mission = NoMission
  /\ completions = {}
  /\ reward = NoReward
  /\ redeem = [r \in ReqIds |-> NoRedeem]
  /\ redemptions = {}

\* checkLevelUp(oldXp, newXp): calculateLevel of both
CallCheckLevelUp ==
  /\ lc.pc = "args"
  /\ lc' = [lc EXCEPT !.pc = "checked", !.levelCheck = checkLevelUp(lc.oldXp, lc.newXp)]
  /\ UNCHANGED <<outage, notifyVars, cacheVars, courseVars, eventVars>>
  /\ UNCHANGED <<users, xp0, tokenRole, moodEntries, feedPosts, reqs, jobs, leaderboard,
                 notifications, auditLog, rk, faults, missionVars, rewardVars>>

\* calculateXpForNextLevel(currentLevel)
CallXpForNextLevel ==
  /\ lc.pc = "checked"
  /\ lc' = [lc EXCEPT !.pc = "next", !.xpForNext = calculateXpForNextLevel(lc.currentLevel)]
  /\ UNCHANGED <<outage, notifyVars, cacheVars, courseVars, eventVars>>
  /\ UNCHANGED <<users, xp0, tokenRole, moodEntries, feedPosts, reqs, jobs, leaderboard,
                 notifications, auditLog, rk, faults, missionVars, rewardVars>>

\* calculateLevel at the xp just returned and at one xp below it
CallCalculateLevel ==
  /\ lc.pc = "next"
  /\ lc' = [lc EXCEPT !.pc = "done",
                      !.levelAtNext = calculateLevel(lc.xpForNext),
                      !.levelBelowNext = calculateLevel(lc.xpForNext - 1)]
  /\ UNCHANGED <<outage, notifyVars, cacheVars, courseVars, eventVars>>
  /\ UNCHANGED <<users, xp0, tokenRole, moodEntries, feedPosts, reqs, jobs, leaderboard,
                 notifications, auditLog, rk, faults, missionVars, rewardVars>>

NextLevel ==
  \/ CallCheckLevelUp
  \/ CallXpForNextLevel
  \/ CallCalculateLevel

SpecLevel == InitLevel /\ [][NextLevel]_vars

(***************************************************************************)
(* Properties                                                              *)
(***************************************************************************)
\* section 4.1 of the specification, stated without the loop of the code
LevelOf(xp) == Cardinality({l \in 1..Len(LEVEL_THRESHOLDS) : LEVEL_THRESHOLDS[l] <= xp})

ThresholdFor(level) ==
  IF level < Len(LEVEL_THRESHOLDS)
    THEN LEVEL_THRESHOLDS[level + 1]
    ELSE LEVEL_THRESHOLDS[Len(LEVEL_THRESHOLDS)] + 5000

WorkerUpdated(u) == \E j \in ReqIds : jobs[j].userId = u /\ jobs[j].writes > 0

\* C1: when two jobs for the same user have both completed, each in its first
\* attempt and each with one ledger write, and no other job wrote to that user,
\* the user's xp is the xp before the jobs plus the xp of both events.
C1_NoLostUpdate ==
  \A j1, j2 \in ReqIds :
    ( /\ j1 # j2
      /\ jobs[j1].state = "completed" /\ jobs[j2].state = "completed"
      /\ jobs[j1].userId = jobs[j2].userId
      /\ jobs[j1].attemptsMade = 0 /\ jobs[j2].attemptsMade = 0
      /\ jobs[j1].writes = 1 /\ jobs[j2].writes = 1
      /\ \A j \in ReqIds \ {j1, j2} :
            jobs[j].userId = jobs[j1].userId => jobs[j].writes = 0
      /\ users[jobs[j1].userId].exists )
    => users[jobs[j1].userId].xp
         = xp0[jobs[j1].userId] + jobs[j1].xp + jobs[j2].xp

\* C2: a job that has completed for an existing colaborador has written the
\* ledger exactly once and has exactly one audit record, whatever attempts failed.
C2_ExactlyOnce ==
  \A j \in ReqIds :
    ( /\ jobs[j].state = "completed"
      /\ users[jobs[j].userId].exists
      /\ users[jobs[j].userId].role = "colaborador" )
    => /\ jobs[j].writes = 1
       /\ Cardinality({a \in auditLog : a.job = j}) = 1

\* C3: the step of the leaderboard update never fails the attempt: whether or
\* not the cache is reachable the job goes on to its audit step with the same
\* number of attempts, and the ledger keeps the update.
C3_CacheFailureNotFatal ==
  [][\A j \in ReqIds :
       (jobs[j].pc = "cache" /\ jobs'[j] # jobs[j])
       => /\ jobs'[j].state = "active" /\ jobs'[j].pc = "audit"
          /\ jobs'[j].attemptsMade = jobs[j].attemptsMade
          /\ users' = users]_vars

\* C4: a user the worker has written to has level = LevelOf(xp) and
\* xpNextThreshold = ThresholdFor(level).
C4_LevelDerived ==
  \A u \in UserIds :
    (users[u].exists /\ WorkerUpdated(u))
    => /\ users[u].nivel = LevelOf(users[u].xp)
       /\ users[u].xpProximo = ThresholdFor(users[u].nivel)

\* a user that started 20 xp below level 2 has been moved to level 2 by two
\* jobs, and a seed row with a hand-written level has been rewritten
C4_Witness ==
  \E u \in UserIds :
    /\ users[u].exists /\ xp0[u] = 480 /\ users[u].nivel = 2
    /\ Cardinality({j \in ReqIds : jobs[j].userId = u /\ jobs[j].writes > 0}) = 2

\* C5: a request whose token role is not colaborador that has gone through
\* awardXpUseCase has no gamification job, and nothing was written for it.
C5_NonColaboradorNeverAwarded ==
  \A r \in ReqIds :
    (reqs[r].pc # "idle" /\ tokenRole[reqs[r].userId] # "colaborador")
    => /\ jobs[r].state = "none" /\ jobs[r].writes = 0
       /\ reqs[r].enqueue \in {"none", "skipped"}

\* a gestor token has been answered 201 while the worker is busy with a job
C5_Witness ==
  \E r, j \in ReqIds :
    /\ reqs[r].status = 201 /\ tokenRole[reqs[r].userId] = "gestor"
    /\ reqs[r].enqueue = "skipped"
    /\ jobs[j].state = "active"

\* C6: when the lookup of a waiting job finds a user whose stored role is not
\* colaborador, the job is completed without a failed attempt and the users
\* table, the leaderboard, the notifications queue and the audit log are unchanged.
C6_IneligibleRoleNoOp ==
  [][\A j \in ReqIds :
       ( /\ jobs[j].state = "waiting" /\ jobs'[j] # jobs[j] /\ faults' = faults
         /\ users[jobs[j].userId].exists
         /\ users[jobs[j].userId].role # "colaborador" )
       => /\ jobs'[j].state = "completed"
          /\ jobs'[j].attemptsMade = jobs[j].attemptsMade
          /\ UNCHANGED <<users, leaderboard, notifications, auditLog>>]_vars

\* a job enqueued under a colaborador token for a stored gestor has completed
C6_Witness ==
  \E j \in ReqIds :
    /\ jobs[j].state = "completed" /\ jobs[j].writes = 0
    /\ users[jobs[j].userId].exists
    /\ users[jobs[j].userId].role = "gestor"
    /\ tokenRole[jobs[j].userId] = "colaborador"

\* C7: a request whose enqueue failed is never answered with an error (its
\* answer is 201), has no job and no ledger write, and its mood entry or post
\* is in the database as long as the user's row is.
C7_EnqueueFailureSwallowed ==
  \A r \in ReqIds :
    reqs[r].queueFailed
    => /\ reqs[r].status \in {0, 201}
       /\ reqs[r].pc = "done" => reqs[r].status = 201
       /\ jobs[r].state = "none" /\ jobs[r].writes = 0
       /\ users[reqs[r].userId].exists =>
            /\ reqs[r].route = "mood" => reqs[r].userId \in moodEntries
            /\ reqs[r].route = "feed" =>
                 [req |-> r, userId |-> reqs[r].userId] \in feedPosts

\* POST /mood of a colaborador has been answered 201 after a failed enqueue
C7_Witness ==
  \E r \in ReqIds :
    /\ reqs[r].queueFailed /\ reqs[r].status = 201
    /\ reqs[r].route = "mood" /\ reqs[r].userId \in moodEntries
    /\ tokenRole[reqs[r].userId] = "colaborador"

\* C8: once awardXpUseCase has returned, the reply of the handler is enabled
\* whatever the state of the job: no step of the worker has to come first.
C8_ReplyNeedsNoWorker ==
  \A r \in ReqIds : reqs[r].pc = "reply" => ENABLED Reply(r)

\* a request has been answered 201 while its job has not been looked at
C8_Witness ==
  \E r \in ReqIds :
    /\ reqs[r].status = 201 /\ reqs[r].enqueue = "enqueued"
    /\ jobs[r].state = "waiting" /\ jobs[r].attemptsMade = 0

\* C9: when the lookup of a waiting job finds no row for its userId, the job is
\* completed without a failed attempt and the users table, the leaderboard, the
\* notifications queue and the audit log are unchanged.
C9_MissingUserNoOp ==
  [][\A j \in ReqIds :
       ( /\ jobs[j].state = "waiting" /\ jobs'[j] # jobs[j] /\ faults' = faults
         /\ ~users[jobs[j].userId].exists )
       => /\ jobs'[j].state = "completed"
          /\ jobs'[j].attemptsMade = jobs[j].attemptsMade
          /\ UNCHANGED <<users, leaderboard, notifications, auditLog>>]_vars

\* a job of a user deleted after the enqueue has completed in its first attempt
C9_Witness ==
  \E j \in ReqIds :
    /\ jobs[j].state = "completed" /\ jobs[j].writes = 0
    /\ jobs[j].attemptsMade = 0
    /\ ~users[jobs[j].userId].exists

\* the userIds of a ranking, in order
RankingIds(ranking) == [i \in 1..Len(ranking) |-> ranking[i].id]

\* ids is the slice [offset, offset + limit) of some descending-xp order of the
\* users of S: as long as the slice of |S| users, without repetition, and the
\* user at position offset + k has fewer than offset + k users of S above it
\* and at least offset + k users of S at or above it
IsSortedSlice(ids, S, offset, limit) ==
  LET n == Cardinality(S)
      rest == IF n > offset THEN n - offset ELSE 0
  IN /\ Len(ids) = (IF rest < limit THEN rest ELSE limit)
     /\ \A i \in 1..Len(ids) :
          /\ ids[i] \in S
          /\ \A k \in 1..Len(ids) : i # k => ids[i] # ids[k]
          /\ Cardinality({v \in S : users[v].xp > users[ids[i]].xp}) < offset + i
          /\ Cardinality({v \in S : users[v].xp >= users[ids[i]].xp}) >= offset + i
          /\ \A k \in 1..Len(ids) : i < k => users[ids[i]].xp >= users[ids[k]].xp

Colaboradores == {u \in UserIds : users[u].exists /\ users[u].role = "colaborador"}
ActiveColaboradores == {u \in Colaboradores : users[u].isActive}

\* C10 as claimed: a ranking served by the fallback is the slice
\* [offset, offset + limit) of all colaborador users by descending xp.
C10_FallbackAllColaboradores ==
  (rk.pc = "done" /\ rk.fallback)
  => IsSortedSlice(RankingIds(rk.ranking), Colaboradores, rk.offset, rk.limit)

\* C10 as amended: a ranking served by the fallback is the slice
\* [offset, offset + limit) of the active colaborador users by descending xp.
C10_FallbackActiveColaboradores ==
  (rk.pc = "done" /\ rk.fallback)
  => IsSortedSlice(RankingIds(rk.ranking), ActiveColaboradores, rk.offset, rk.limit)

\* a page taken at offset 1 by the fallback when two colaboradores are active
\* and a third one is deactivated
C10_Witness ==
  /\ rk.pc = "done" /\ rk.fallback
  /\ rk.offset = 1 /\ Len(rk.ranking) >= 1
  /\ Cardinality(ActiveColaboradores) = 2
  /\ Cardinality(Colaboradores) = 3

\* the greatest level of the table whose threshold is at most xp
GreatestLevel(xp) ==
  CHOOSE l \in 1..Len(LEVEL_THRESHOLDS) :
    /\ LEVEL_THRESHOLDS[l] <= xp
    /\ \A m \in 1..Len(LEVEL_THRESHOLDS) : LEVEL_THRESHOLDS[m] <= xp => m <= l

\* C13: the level calculator is monotone: for xp values a <= b the level of a
\* is at most the level of b.
C13_LevelMonotone ==
  (lc.pc \in {"checked", "next", "done"} /\ lc.oldXp <= lc.newXp)
  => lc.levelCheck.oldLevel <= lc.levelCheck.newLevel

\* the calculator has been called just below and just past the last threshold
C13_Witness ==
  /\ lc.pc = "done"
  /\ lc.oldXp = 22999 /\ lc.newXp = 23001
  /\ lc.levelCheck.oldLevel = 9 /\ lc.levelCheck.newLevel = 10

\* C14 as claimed: for every level L of the table, the last one included, the
\* level of the xp returned by ThresholdFor(L) is L + 1.
C14_ThresholdEntersNextLevel ==
  lc.pc = "done" => lc.levelAtNext = lc.currentLevel + 1

\* C14 as amended: for every level L below the last one, ThresholdFor(L) is the
\* xp at which the level first becomes L + 1 (one xp less is level L); for the
\* last level, ThresholdFor is its threshold plus 5000 and the level there is
\* still the last level.
C14_ThresholdEntersNextLevelBelowLast ==
  lc.pc = "done"
  => IF lc.currentLevel < Len(LEVEL_THRESHOLDS)
       THEN /\ lc.levelAtNext = lc.currentLevel + 1
            /\ lc.levelBelowNext = lc.currentLevel
       ELSE /\ lc.xpForNext = LEVEL_THRESHOLDS[Len(LEVEL_THRESHOLDS)] + 5000
            /\ lc.levelAtNext = lc.currentLevel

\* the threshold for level 9 has been computed and is the entry of level 10
C14_Witness ==
  /\ lc.pc = "done" /\ lc.currentLevel = 9
  /\ lc.xpForNext = 23000 /\ lc.levelAtNext = 10 /\ lc.levelBelowNext = 9

\* C20: the level of an xp >= 0 is the greatest level of the table whose
\* threshold is at most xp; it is within 1..10, and it is 10 from 23000 on.
C20_LevelIsGreatestThreshold ==
  lc.pc \in {"checked", "next", "done"}
  => \A c \in {<<lc.oldXp, lc.levelCheck.oldLevel>>, <<lc.newXp, lc.levelCheck.newLevel>>} :
       /\ c[2] = GreatestLevel(c[1])
       /\ c[2] \in 1..10
       /\ c[1] >= 23000 => c[2] = 10

\* the calculator has been called at a threshold inside the table and at an xp
\* past the whole table
C20_Witness ==
  /\ lc.pc = "done"
  /\ lc.oldXp = 1500 /\ lc.levelCheck.oldLevel = 3
  /\ lc.newXp = 28001 /\ lc.levelCheck.newLevel = 10

\* C15: no step takes the stored xp of a user from a value to a strictly
\* smaller one, whatever jobs run and however their steps interleave.
C15_XpNeverDecreases ==
  [][\A u \in UserIds :
       (users[u].exists /\ users'[u].exists) => users'[u].xp >= users[u].xp]_vars

C11_CacheUnavailableStillServed ==
  (rk.pc = "done" /\ rk.cacheFailed = {"getLeaderboard", "pipeline", "getUserRank"})
  => /\ rk.status = 200
     /\ IsSortedSlice(RankingIds(rk.ranking), ActiveColaboradores, rk.offset, rk.limit)
     /\ \A i \in 1..Len(rk.ranking) :
          /\ rk.ranking[i].rank = rk.offset + i
          /\ rk.ranking[i].xp = users[rk.ranking[i].id].xp
     /\ rk.currentUserRank = 0

\* the three cache operations failed for a request whose user is on the page
\* that was served
C11_Witness ==
  /\ rk.pc = "done" /\ rk.status = 200
  /\ rk.cacheFailed = {"getLeaderboard", "pipeline", "getUserRank"}
  /\ \E i \in 1..Len(rk.ranking) : rk.ranking[i].isCurrentUser
  /\ rk.currentUserRank = 0

\* the only job that wrote to the user of job j is j, in its first attempt,
\* and no operation failed
ScenarioA(j) ==
  /\ jobs[j].state = "completed" /\ jobs[j].xp = 600
  /\ jobs[j].attemptsMade = 0 /\ jobs[j].writes = 1
  /\ faults = 0
  /\ xp0[jobs[j].userId] = 0
  /\ \A k \in ReqIds \ {j} : jobs[k].userId = jobs[j].userId => jobs[k].writes = 0

NotificationsOf(j) == {n \in notifications : n.job = j}

\* C12 as claimed: a single event of 600 xp processed for a colaborador at
\* xp 0 and level 1 leaves the stored level at 3, with leveledUp true and
\* exactly two notifications of the job, one xp_gained and one level_up.
C12_ScenarioALevel3 ==
  \A j \in ReqIds :
    ScenarioA(j)
    => /\ users[jobs[j].userId].xp = 600
       /\ users[jobs[j].userId].nivel = 3
       /\ \A a \in auditLog : a.job = j => a.leveledUp
       /\ Cardinality(NotificationsOf(j)) = 2
       /\ {n.type : n \in NotificationsOf(j)} = {"xp_gained", "level_up"}

\* C12 as amended: the stored level moves from 1 to 2 (600 is at least the
\* threshold 500 of level 2 and below the threshold 1500 of level 3), with
\* leveledUp true and exactly two notifications of the job, one xp_gained and
\* one level_up from level 1 to level 2.
C12_ScenarioALevel2 ==
  \A j \in ReqIds :
    ScenarioA(j)
    => /\ users[jobs[j].userId].xp = 600
       /\ users[jobs[j].userId].nivel = 2
       /\ \A a \in auditLog : a.job = j => a.leveledUp
       /\ Cardinality({a \in auditLog : a.job = j}) = 1
       /\ Cardinality(NotificationsOf(j)) = 2
       /\ {n.type : n \in NotificationsOf(j)} = {"xp_gained", "level_up"}
       /\ \A n \in NotificationsOf(j) :
            n.type = "level_up" => n.oldLevel = 1 /\ n.newLevel = 2

\* the job of a mission worth 600 xp has completed for a user that had 0 xp
C12_Witness ==
  \E j \in ReqIds :
    /\ ScenarioA(j)
    /\ reqs[j].route = "mission"
    /\ users[jobs[j].userId].xp = 600
    /\ Cardinality(NotificationsOf(j)) = 2

\* C16: every gamification job on the queue carries xp >= 0 and stars >= 0.
C16_EventAmountsNonNegative ==
  \A j \in ReqIds :
    jobs[j].state # "none" => jobs[j].xp >= 0 /\ jobs[j].stars >= 0

C17_StarsNonNegative ==
  \A u \in UserIds : users[u].exists => users[u].estrelas >= 0

\* no gamification job is waiting for an attempt or being processed
NoJobInProgress == \A j \in ReqIds : jobs[j].state \notin {"waiting", "active"}

\* the sum of the xp deltas of a set of audit records
RECURSIVE AuditXp(_)
AuditXp(S) ==
  IF S = {} THEN 0
  ELSE LET a == CHOOSE x \in S : TRUE IN a.xp + AuditXp(S \ {a})

\* C25: whenever no job is in progress and no operation has failed, the xp of
\* every user is the xp before any job ran plus the sum of the xp deltas of
\* the user's audit records.
C25_AuditMatchesLedger ==
  (NoJobInProgress /\ faults = 0)
  => \A u \in UserIds :
       users[u].exists
       => users[u].xp = xp0[u] + AuditXp({a \in auditLog : a.userId = u})

\* C26: whenever no job is in progress and no operation has failed (the cache
\* was reachable for every update and the key did not expire), the cache score
\* of every user a job wrote to is the user's xp in the ledger.
C26_CacheMatchesLedger ==
  (NoJobInProgress /\ faults = 0)
  => \A u \in UserIds :
       (users[u].exists /\ WorkerUpdated(u))
       => [userId |-> u, xp |-> users[u].xp] \in leaderboard.scores

\* C27: when a redemption and a gamification job of the same user have both
\* completed, the job in its first attempt, and nothing else wrote to the
\* user, the stars are the stars before, less the cost, plus the stars of the job.
C27_DeductionNotLost ==
  \A r, j \in ReqIds :
    ( /\ redeem[r].pc = "done" /\ redeem[r].status = 201
      /\ jobs[j].state = "completed" /\ jobs[j].writes = 1 /\ jobs[j].attemptsMade = 0
      /\ jobs[j].userId = redeem[r].userId
      /\ \A q \in ReqIds \ {r} : redeem[q].userId = redeem[r].userId
                                     => redeem[q].status # 201
      /\ \A k \in ReqIds \ {j} : jobs[k].userId = jobs[j].userId => jobs[k].writes = 0 )
    => users[redeem[r].userId].estrelas
         = SeedUserRow("colaborador").estrelas - redeem[r].custo + jobs[j].stars

(***************************************************************************)
(* Event participation: POST /events/:id/participate                       *)
(***************************************************************************)
EventIds == {"e1", "e2", "e3"}

\* the eventos table: e1 was created with rewardXP 0, e2 with rewardXP 50,
\* e3 does not exist
eventos ==
  [e1 |-> [exists |-> TRUE, rewardXP |-> 0],
   e2 |-> [exists |-> TRUE, rewardXP |-> 50],
   e3 |-> [exists |-> FALSE, rewardXP |-> 0]]

\* xp: event.rewardXP || XP_REWARDS.participar_evento
EventXp(e) ==
  IF eventos[e].rewardXP # 0 THEN eventos[e].rewardXP ELSE XP_participar_evento

\* eventParticipation.upsert on eventoId_userId: one row per user and event
upsertParticipation(e, u) == participations \cup {[eventoId |-> e, userId |-> u]}

\* the awards that reached the gamification queue: the request, the user, the
\* kind of award and the event, lesson or course it was given for
Dispatched(r, u, kind, entity) ==
  [req |-> r, userId |-> u, kind |-> kind, entity |-> entity]

\* POST /events/:id/participate: evento.findUnique (404), the upsert (foreign
\* key on userId), then awardXpUseCase whatever the upsert did
EventParticipate(r, u, e, ok) ==
  /\ Arrives(r)
  /\ IF ~eventos[e].exists
       THEN ok /\ Reject(r, u, "event", 404)
               /\ UNCHANGED <<participations, awards>>
     ELSE IF ~users[u].exists
       THEN ok /\ Reject(r, u, "event", 500)
               /\ UNCHANGED <<participations, awards>>
     ELSE /\ AwardInput(r, u, "event", EventXp(e), STAR_participar_evento, ok)
          /\ participations' = upsertParticipation(e, u)
          /\ awards' = IF awardXpUseCase(tokenRole[u], ok) = "enqueued"
                         THEN awards \cup {Dispatched(r, u, "event", e)}
                         ELSE awards
  /\ UNCHANGED <<outage, notifyVars, cacheVars, progress, lessonReq>>
  /\ UNCHANGED <<levelVars, missionVars, rewardVars>>
  /\ UNCHANGED <<users, xp0, tokenRole, moodEntries, feedPosts, leaderboard,
                 notifications, auditLog, rk>>

NextEvent ==
  \/ \E r \in ReqIds, u \in UserIds, e \in EventIds, ok \in BOOLEAN :
       EventParticipate(r, u, e, ok)
  \/ \E r \in ReqIds : Reply(r)
  \/ \E j \in ReqIds, ok \in BOOLEAN : ProcessLookup(j, ok)
  \/ \E j \in ReqIds, ok \in BOOLEAN : ProcessUpdate(j, ok)
  \/ \E j \in ReqIds, ok, okXp, okLevel \in BOOLEAN : ProcessCache(j, ok, okXp, okLevel)
  \/ \E j \in ReqIds, ok \in BOOLEAN : ProcessAudit(j, ok)
  \/ \E u \in UserIds : DeleteUser(u)

SpecEvent == Init /\ [][NextEvent]_vars

\* C30: the participation award of one user for one event reaches the
\* gamification queue at most once.
C30_ParticipationAwardOnce ==
  \A a, b \in awards :
    (a.kind = "event" /\ b.kind = "event" /\ a.userId = b.userId
       /\ a.entity = b.entity) => a.req = b.req

(***************************************************************************)
(* Lesson completion: POST /courses/:id/lessons/:lessonId/complete         *)
(***************************************************************************)
LessonIds == {"l1", "l2", "l3"}

\* the course of the requests: two lessons, l1 with rewardXP 10 and l2 with
\* the default rewardXP 0; l3 is not a lesson of the course
course ==
  [id |-> "c1", rewardXP |-> 100, lessons |-> [l1 |-> 10, l2 |-> 0]]

\* progressPct: Math.round((completedLessons.length / course.lessons.length) * 100)
progressPct(completedLessons) ==
  LET n == Cardinality(completedLessons)
      total == Cardinality(DOMAIN course.lessons) IN
  (200 * n + total) \div (2 * total)

\* requests are numbered in the order they arrive
LessonArrives(r) ==
  /\ lessonReq[r].pc = "idle"
  /\ \A q \in ReqIds : q < r => lessonReq[q].pc # "idle"

\* course.findUnique with its lessons (404 for a lesson the course does not
\* have), then courseProgress.findUnique of the user's row
LessonRead(r, u, l) ==
  /\ LessonArrives(r)
  /\ lessonReq' = [lessonReq EXCEPT ![r] =
       IF l \notin DOMAIN course.lessons
         THEN [pc |-> "done", userId |-> u, lessonId |-> l,
               completedLessons |-> {}, status |-> 404]
       ELSE IF ~progress[u].exists
         THEN [pc |-> "create", userId |-> u, lessonId |-> l,
               completedLessons |-> {}, status |-> 0]
       ELSE [pc |-> "update", userId |-> u, lessonId |-> l,
             completedLessons |-> progress[u].completedLessons, status |-> 0]]
  /\ UNCHANGED <<outage, notifyVars, cacheVars, progress, awards, eventVars>>
  /\ UNCHANGED <<levelVars, missionVars, rewardVars>>
  /\ UNCHANGED <<users, xp0, tokenRole, moodEntries, feedPosts, reqs, jobs,
                 leaderboard, notifications, auditLog, rk, faults>>

\* courseProgress.create of a request that found no row: the unique index on
\* courseId and userId and the foreign key on userId reject it (500)
LessonCreate(r) ==
  LET q == lessonReq[r] IN
  /\ q.pc = "create"
  /\ IF progress[q.userId].exists \/ ~users[q.userId].exists
       THEN /\ lessonReq' = [lessonReq EXCEPT ![r].pc = "done", ![r].status = 500]
            /\ progress' = progress
       ELSE /\ lessonReq' = [lessonReq EXCEPT ![r].pc = "update"]
            /\ progress' = [progress EXCEPT ![q.userId] =
                              [exists |-> TRUE, completedLessons |-> {}]]
  /\ UNCHANGED <<outage, notifyVars, cacheVars, awards, eventVars>>
  /\ UNCHANGED <<levelVars, missionVars, rewardVars>>
  /\ UNCHANGED <<users, xp0, tokenRole, moodEntries, feedPosts, reqs, jobs,
                 leaderboard, notifications, auditLog, rk, faults>>

\* the rest of the handler: the includes test on the row it read, the update
\* by id with the list it read plus the lesson, the lesson award when the
\* lesson's rewardXP is positive, the course award when progressPct is 100
LessonUpdate(r, okLesson, okCourse) ==
  LET q == lessonReq[r]
      u == q.userId
      completedLessons == q.completedLessons \cup {q.lessonId}
      isCompleted == progressPct(completedLessons) = 100
      lessonXp == course.lessons[q.lessonId]
      awardsLesson == lessonXp > 0 /\ GamificationGuard(tokenRole[u])
      awardsCourse == isCompleted /\ GamificationGuard(tokenRole[u])
      failed == {o \in {1} : ~okLesson} \cup {o \in {2} : ~okCourse} IN
  /\ q.pc = "update"
  /\ IF q.lessonId \in q.completedLessons
       THEN /\ okLesson /\ okCourse
            /\ lessonReq' = [lessonReq EXCEPT ![r].pc = "done", ![r].status = 200]
            /\ UNCHANGED <<progress, awards, faults>>
     ELSE IF ~progress[u].exists
       THEN /\ okLesson /\ okCourse
            /\ lessonReq' = [lessonReq EXCEPT ![r].pc = "done", ![r].status = 500]
            /\ UNCHANGED <<progress, awards, faults>>
     ELSE /\ ~okLesson => awardsLesson
          /\ ~okCourse => awardsCourse
          /\ faults + Cardinality(failed) <= MaxFaults
          /\ faults' = faults + Cardinality(failed)
          /\ progress' = [progress EXCEPT ![u].completedLessons = completedLessons]
          /\ awards' = awards
               \cup {Dispatched(r, u, "lesson", q.lessonId) : o \in
                       {o \in {1} : /\ lessonXp > 0
                                    /\ awardXpUseCase(tokenRole[u], okLesson) = "enqueued"}}
               \cup {Dispatched(r, u, "course", course.id) : o \in
                       {o \in {2} : /\ isCompleted
                                    /\ awardXpUseCase(tokenRole[u], okCourse) = "enqueued"}}
          /\ lessonReq' = [lessonReq EXCEPT ![r].pc = "done", ![r].status = 200,
                                            ![r].completedLessons = completedLessons]
  /\ UNCHANGED <<outage, notifyVars, cacheVars, eventVars>>
  /\ UNCHANGED <<levelVars, missionVars, rewardVars>>
  /\ UNCHANGED <<users, xp0, tokenRole, moodEntries, feedPosts, reqs, jobs,
                 leaderboard, notifications, auditLog, rk>>

\* the users of Init; u1 has either no course_progress row yet or the row
\* left by an earlier completion of l2
InitCourse ==
  /\ users \in {[u1 |-> row, u2 |-> NewUserRow("gestor"), u3 |-> NoUser] :
                  row \in {NearLevelRow("colaborador"), SeedUserRow("colaborador")}}
  /\ xp0 = [u \in UserIds |-> users[u].xp]
  /\ tokenRole \in {[u1 |-> "colaborador", u2 |-> t2, u3 |-> "colaborador"] :
                      t2 \in {"colaborador", "gestor"}}
  /\ moodEntries = {}
  /\ feedPosts = {}
  /\ reqs = [r \in ReqIds |-> NoReq]
  /\ jobs = [r \in ReqIds |-> NoJob]
  /\ leaderboard = EmptyLeaderboard
  /\ notifications = {}
  /\ auditLog = {}
  /\ rk = NoRanking
  /\ faults = 0
  /\ outage = FALSE
  /\ notifState = <<>>
  /\ notifRows = {}
  /\ cc = NoCacheCall
  /\ progress \in {[u1 |-> p, u2 |-> NoProgress, u3 |-> NoProgress] :
                     p \in {NoProgress, [exists |-> TRUE, completedLessons |-> {"l2"}]}}
  /\ lessonReq = [r \in ReqIds |-> NoLessonReq]
  /\ awards = {}
  /\ participations = {}
  /\ Untouched

NextCourse ==
  \/ \E r \in ReqIds, u \in UserIds, l \in LessonIds : LessonRead(r, u, l)
  \/ \E r \in ReqIds : LessonCreate(r)
  \/ \E r \in ReqIds, okLesson, okCourse \in BOOLEAN : LessonUpdate(r, okLesson, okCourse)
  \/ \E u \in UserIds : DeleteUser(u)

SpecCourse == InitCourse /\ [][NextCourse]_vars

\* C29: the lesson award of one user for one lesson, and the course award of
\* one user for the course, reach the gamification queue at most once.
C29_LessonAwardOnce ==
  \A a, b \in awards :
    (a.kind \in {"lesson", "course"} /\ <<a.kind, a.userId, a.entity>>
                                        = <<b.kind, b.userId, b.entity>>)
      => a.req = b.req

\* C22: a page served from the non-empty cache reports for each user the
\* 1-based position of the user in the descending-xp order of all colaborador
\* users (among users of equal xp any of their positions).
C22_CachedRankIsGlobalPosition ==
  (rk.pc = "done" /\ ~rk.fallback /\ rk.cacheFailed = {})
    => \A i \in 1..Len(rk.ranking) :
         LET e == rk.ranking[i]
             above == {v \in Colaboradores : users[v].xp > e.xp}
             notBelow == {v \in Colaboradores : users[v].xp >= e.xp}
         IN Cardinality(above) < e.rank /\ e.rank <= Cardinality(notBelow)

(***************************************************************************)
(* The three operations of the leaderboard cache client, called against a  *)
(* store that is reachable (ok) or not: the client has no try/catch, so    *)
(* the rejection of the redis command is the outcome of the operation      *)
(***************************************************************************)
\* the scores a caller passes to updateLeaderboardScore
ScoreInputs == {480, 800}

\* updateLeaderboardScore: resolves with nothing, or rejects
updateLeaderboardScoreCall(ok) ==
  [outcome |-> IF updateLeaderboardScore(ok) = "throw" THEN "throw" ELSE "value",
   entries |-> <<>>, rank |-> 0]

\* mutant: the rejection is swallowed and the empty list returned
getLeaderboardCall_EmptyOnError(ok, scores, offset, limit) ==
  IF ok THEN [outcome |-> "value", entries |-> getLeaderboard(scores, offset, limit),
              rank |-> 0]
  ELSE [outcome |-> "value", entries |-> <<>>, rank |-> 0]

\* getLeaderboard: resolves with the entries, or rejects
getLeaderboardCall(ok, scores, offset, limit) ==
  IF ok THEN [outcome |-> "value", entries |-> getLeaderboard(scores, offset, limit),
              rank |-> 0]
  ELSE [outcome |-> "throw", entries |-> <<>>, rank |-> 0]

\* getUserRank: resolves with the rank or null (here 0), or rejects
getUserRankCall(ok, scores, userId) ==
  IF ok THEN [outcome |-> "value", entries |-> <<>>, rank |-> getUserRank(scores, userId)]
  ELSE [outcome |-> "throw", entries |-> <<>>, rank |-> 0]

\* the call and what it returned
CacheCall(op, ok, userId, offset, limit, result) ==
  [pc |-> "done", op |-> op, ok |-> ok, scores |-> leaderboard.scores,
   userId |-> userId, offset |-> offset, limit |-> limit,
   outcome |-> result.outcome, entries |-> result.entries, rank |-> result.rank]

CacheUpdateScore(u, xp, ok) ==
  /\ cc' = CacheCall("updateLeaderboardScore", ok, u, 0, 1, updateLeaderboardScoreCall(ok))
  /\ leaderboard' = IF updateLeaderboardScore(ok) = "written"
       THEN [leaderboard EXCEPT !.scores = zadd(@, u, xp)]
       ELSE leaderboard
  /\ UNCHANGED <<outage, notifyVars, courseVars, eventVars>>
  /\ UNCHANGED <<levelVars, missionVars, rewardVars>>
  /\ UNCHANGED <<users, xp0, tokenRole, moodEntries, feedPosts, reqs, jobs,
                 notifications, auditLog, rk, faults>>

CacheGetTopN(offset, limit, ok) ==
  /\ cc' = CacheCall("getLeaderboard", ok, "u1", offset, limit,
                     getLeaderboardCall(ok, leaderboard.scores, offset, limit))
  /\ UNCHANGED <<outage, notifyVars, courseVars, eventVars>>
  /\ UNCHANGED <<levelVars, missionVars, rewardVars>>
  /\ UNCHANGED <<users, xp0, tokenRole, moodEntries, feedPosts, reqs, jobs,
                 leaderboard, notifications, auditLog, rk, faults>>

CacheGetRank(u, ok) ==
  /\ cc' = CacheCall("getUserRank", ok, u, 0, 1,
                     getUserRankCall(ok, leaderboard.scores, u))
  /\ UNCHANGED <<outage, notifyVars, courseVars, eventVars>>
  /\ UNCHANGED <<levelVars, missionVars, rewardVars>>
  /\ UNCHANGED <<users, xp0, tokenRole, moodEntries, feedPosts, reqs, jobs,
                 leaderboard, notifications, auditLog, rk, faults>>

NextCache ==
  \/ \E u \in UserIds, xp \in ScoreInputs, ok \in BOOLEAN : CacheUpdateScore(u, xp, ok)
  \/ \E offset \in 0..MaxOffset, limit \in 1..MaxLimit, ok \in BOOLEAN :
       CacheGetTopN(offset, limit, ok)
  \/ \E u \in UserIds, ok \in BOOLEAN : CacheGetRank(u, ok)

SpecCache == Init /\ [][NextCache]_vars

\* what the operation of the call returns from a reachable store with no data
OutcomeOnEmpty(call) ==
  IF call.op = "updateLeaderboardScore" THEN updateLeaderboardScoreCall(TRUE)
  ELSE IF call.op = "getLeaderboard"
    THEN getLeaderboardCall(TRUE, {}, call.offset, call.limit)
  ELSE getUserRankCall(TRUE, {}, call.userId)

\* C23: a call of a cache client operation against an unreachable store has
\* an outcome other than the outcome of the operation on a reachable store
\* with no data: getLeaderboard does not return the empty list and
\* getUserRank does not return null.
C23_UnreachableIsDistinguishable ==
  (cc.pc = "done" /\ ~cc.ok)
    => /\ [outcome |-> cc.outcome, entries |-> cc.entries, rank |-> cc.rank]
            # OutcomeOnEmpty(cc)
       /\ cc.op = "getLeaderboard" => ~(cc.outcome = "value" /\ cc.entries = <<>>)
       /\ cc.op = "getUserRank" => ~(cc.outcome = "value" /\ cc.rank = 0)

\* getLeaderboard was called while the store, holding scores, was unreachable
C23_Witness ==
  /\ cc.pc = "done" /\ ~cc.ok /\ cc.op = "getLeaderboard"
  /\ cc.outcome = "throw" /\ leaderboard.scores # {}

(***************************************************************************)
(* The notification worker and the notifications routes                    *)
(***************************************************************************)
\* the state of a job of the notifications queue: waiting with no attempt made
\* from the moment enqueueNotification added it
NotifyState(n) ==
  IF n \in DOMAIN notifState THEN notifState[n]
  ELSE [state |-> "waiting", attemptsMade |-> 0]

\* BullMQ: a throwing processor moves the job back to wait (after its fixed
\* delay) until attemptsMade reaches the attempts option, then to failed
failNotifyAttempt(st) ==
  [state |-> IF st.attemptsMade + 1 >= NotificationAttempts THEN "failed" ELSE "waiting",
   attemptsMade |-> st.attemptsMade + 1]

\* prisma.notification.create: status is left to its column default 'unread'
NotificationRow(n) ==
  [id |-> n, userId |-> n.userId, type |-> n.type, status |-> "unread"]

\* the types of the notifications the gamification worker enqueues
NotificationTypes == {"xp_gained", "level_up"}

\* the jobs of the notifications queue that the given attempt of the given
\* gamification job added with the given type
EnqueuedBy(j, attempt, type) ==
  {n \in notifications : n.job = j /\ n.attempt = attempt /\ n.type = type}

\* the worker takes a waiting job and runs processNotificationJob: the create
\* (foreign key on userId), then the processor returns.  The processor is one
\* await, so a job is never seen between its start and its end.
processNotificationJob(j, attempt, type, ok) ==
  /\ Fault(ok)
  /\ \E n \in EnqueuedBy(j, attempt, type) :
       /\ NotifyState(n).state = "waiting"
       /\ IF ok /\ users[n.userId].exists
            THEN /\ notifRows' = notifRows \cup {NotificationRow(n)}
                 /\ notifState' = (n :> [NotifyState(n) EXCEPT !.state = "completed"])
                                     @@ notifState
            ELSE /\ notifRows' = notifRows
                 /\ notifState' = (n :> failNotifyAttempt(NotifyState(n))) @@ notifState
  /\ UNCHANGED <<outage, cacheVars, courseVars, eventVars>>
  /\ UNCHANGED <<levelVars, missionVars, rewardVars>>
  /\ UNCHANGED <<users, xp0, tokenRole, moodEntries, feedPosts, reqs, jobs,
                 leaderboard, notifications, auditLog, rk>>

\* mutant: the route flips the status of the row
markRead_Toggle(row) ==
  [row EXCEPT !.status = IF @ = "read" THEN "unread" ELSE "read"]

\* data: { status: 'read', readAt } of both updateMany calls
markRead(row) == [row EXCEPT !.status = "read"]

\* PATCH /notifications/:id/read: updateMany where { id, userId: request.user.id }
NotificationMarkRead(u, j, attempt, type) ==
  /\ \E row \in notifRows : row.id \in EnqueuedBy(j, attempt, type)
  /\ notifRows' = {IF row.id \in EnqueuedBy(j, attempt, type) /\ row.userId = u
                       THEN markRead(row) ELSE row : row \in notifRows}
  /\ UNCHANGED <<outage, notifState, cacheVars, courseVars, eventVars>>
  /\ UNCHANGED <<levelVars, missionVars, rewardVars>>
  /\ UNCHANGED <<users, xp0, tokenRole, moodEntries, feedPosts, reqs, jobs,
                 leaderboard, notifications, auditLog, rk, faults>>

\* PATCH /notifications/read-all: updateMany where { userId, status: 'unread' }
NotificationReadAll(u) ==
  /\ notifRows' = {IF row.userId = u /\ row.status = "unread" THEN markRead(row)
                     ELSE row : row \in notifRows}
  /\ UNCHANGED <<outage, notifState, cacheVars, courseVars, eventVars>>
  /\ UNCHANGED <<levelVars, missionVars, rewardVars>>
  /\ UNCHANGED <<users, xp0, tokenRole, moodEntries, feedPosts, reqs, jobs,
                 leaderboard, notifications, auditLog, rk, faults>>

\* u1 is the user whose events are processed
InitNotify ==
  /\ users = [u1 |-> SeedUserRow("colaborador"), u2 |-> NewUserRow("gestor"),
              u3 |-> NoUser]
  /\ xp0 = [u \in UserIds |-> users[u].xp]
  /\ tokenRole = [u1 |-> "colaborador", u2 |-> "gestor", u3 |-> "colaborador"]
  /\ moodEntries = {}
  /\ feedPosts = {}
  /\ reqs = [r \in ReqIds |-> NoReq]
  /\ jobs = [r \in ReqIds |-> NoJob]
  /\ leaderboard = EmptyLeaderboard
  /\ notifications = {}
  /\ auditLog = {}
  /\ rk = NoRanking
  /\ faults = 0
  /\ Quiescent
  /\ Untouched

NextNotify ==
  \/ \E r \in ReqIds, ok \in BOOLEAN : FeedPost(r, "u1", ok)
  \/ \E r \in ReqIds : Reply(r)
  \/ \E j \in ReqIds, ok \in BOOLEAN : ProcessLookup(j, ok)
  \/ \E j \in ReqIds, ok \in BOOLEAN : ProcessUpdate(j, ok)
  \/ \E j \in ReqIds, ok, okXp, okLevel \in BOOLEAN : ProcessCache(j, ok, okXp, okLevel)
  \/ \E j \in ReqIds, ok \in BOOLEAN : ProcessAudit(j, ok)
  \/ \E j \in ReqIds, attempt \in 1..GamificationAttempts, type \in NotificationTypes,
        ok \in BOOLEAN : processNotificationJob(j, attempt, type, ok)
  \/ \E u \in UserIds, j \in ReqIds, attempt \in 1..GamificationAttempts,
        type \in NotificationTypes : NotificationMarkRead(u, j, attempt, type)
  \/ \E u \in UserIds : NotificationReadAll(u)
  \/ \E u \in UserIds : DeleteUser(u)

SpecNotify == InitNotify /\ [][NextNotify]_vars

\* C24: a notifications row is unread when it is created, the only change of
\* the status of a row is from unread to read, and a row that is read stays
\* read for as long as it exists.
C24_UnreadThenRead ==
  [][/\ \A new \in notifRows' :
          (\A old \in notifRows : old.id # new.id) => new.status = "unread"
     /\ \A old \in notifRows, new \in notifRows' :
          (old.id = new.id /\ old.status # new.status)
            => old.status = "unread" /\ new.status = "read"
     /\ \A old \in notifRows, new \in notifRows' :
          (old.id = new.id /\ old.status = "read") => new.status = "read"]_vars

\* a row that was read and a row, created later or not touched, still unread
C24_Witness ==
  \E a, b \in notifRows : a.status = "read" /\ b.status = "unread"

(***************************************************************************)
(* The two workers and an outage: from some moment on Redis and the        *)
(* database are unreachable and every operation of a job fails.  The       *)
(* workers run for as long as the process does, take every waiting job     *)
(* (after its backoff) and every await of a processor settles, so a step   *)
(* of a worker that stays possible is taken.                               *)
(***************************************************************************)
\* the beginning of the outage is one of the at most MaxFaults failures
OutageBegins ==
  /\ ~outage
  /\ faults < MaxFaults /\ faults' = faults + 1
  /\ outage' = TRUE
  /\ UNCHANGED <<notifyVars, cacheVars, courseVars, eventVars>>
  /\ UNCHANGED <<levelVars, missionVars, rewardVars>>
  /\ UNCHANGED <<users, xp0, tokenRole, moodEntries, feedPosts, reqs, jobs,
                 leaderboard, notifications, auditLog, rk>>

\* a step of the gamification worker or of the notification worker
WorkerStep ==
  \/ \E j \in ReqIds, ok \in BOOLEAN : ProcessLookup(j, ok)
  \/ \E j \in ReqIds, ok \in BOOLEAN : ProcessUpdate(j, ok)
  \/ \E j \in ReqIds, ok, okXp, okLevel \in BOOLEAN : ProcessCache(j, ok, okXp, okLevel)
  \/ \E j \in ReqIds, ok \in BOOLEAN : ProcessAudit(j, ok)
  \/ \E j \in ReqIds, attempt \in 1..GamificationAttempts, type \in NotificationTypes,
        ok \in BOOLEAN : processNotificationJob(j, attempt, type, ok)

NextRetry ==
  \/ \E r \in ReqIds, ok \in BOOLEAN : FeedPost(r, "u1", ok)
  \/ \E r \in ReqIds : Reply(r)
  \/ OutageBegins
  \/ WorkerStep

SpecRetry == InitNotify /\ [][NextRetry]_vars /\ WF_vars(WorkerStep)

\* the attempts made of every job are within the attempts option of its queue,
\* a job that is waiting or running has attempts left, and a job is failed
\* exactly when its attempts are used up
AttemptsBounded ==
  /\ \A j \in ReqIds :
       /\ jobs[j].attemptsMade <= GamificationAttempts
       /\ jobs[j].state \in {"waiting", "active"}
            => jobs[j].attemptsMade < GamificationAttempts
       /\ jobs[j].state = "failed" <=> jobs[j].attemptsMade = GamificationAttempts
  /\ \A n \in notifications :
       /\ NotifyState(n).attemptsMade <= NotificationAttempts
       /\ NotifyState(n).state = "waiting"
            => NotifyState(n).attemptsMade < NotificationAttempts
       /\ NotifyState(n).state = "failed"
            <=> NotifyState(n).attemptsMade = NotificationAttempts

\* a job that is completed or failed is not touched again
SettledStaysSettled ==
  /\ \A j \in ReqIds :
       jobs[j].state \in {"completed", "failed"} => jobs'[j] = jobs[j]
  /\ \A n \in notifications :
       NotifyState(n).state \in {"completed", "failed"}
         => n \in DOMAIN notifState' /\ notifState'[n] = notifState[n]

AllSettled ==
  /\ \A j \in ReqIds : jobs[j].state \notin {"waiting", "active"}
  /\ \A n \in notifications : NotifyState(n).state \in {"completed", "failed"}

\* C21: a gamification job is attempted at most 3 times and a notification
\* job at most 2 times; a job whose last attempt failed is failed and, like a
\* completed job, is never attempted again; and from some moment on every job
\* is completed or failed.
C21_RetriesBoundedAndSettle ==
  /\ []AttemptsBounded
  /\ [][SettledStaysSettled]_vars
  /\ <>[]AllSettled

\* every job is settled, a gamification job having failed after three
\* attempts and a notification job after two
C21_Witness ==
  /\ \E j \in ReqIds :
       jobs[j].state = "failed" /\ jobs[j].attemptsMade = GamificationAttempts
  /\ \E n \in notifications :
       NotifyState(n) = [state |-> "failed", attemptsMade |-> NotificationAttempts]
  /\ AllSettled

\* C28: a step of a job in which notificationQueue.add is rejected leaves the
\* job active at its audit step with the same number of failed attempts and
\* leaves the ledger as the job wrote it; the audit step of such a job, when the
\* insert itself succeeds, writes the audit record and completes the job.
C28_NotificationFailureNotFatal ==
  [][\A j \in ReqIds :
       /\ jobs'[j].notifyFailed > jobs[j].notifyFailed
          => /\ jobs'[j].state = "active" /\ jobs'[j].pc = "audit"
             /\ jobs'[j].attemptsMade = jobs[j].attemptsMade
             /\ jobs'[j].writes = jobs[j].writes
             /\ users' = users
       /\ ( /\ jobs[j].pc = "audit" /\ jobs[j].notifyFailed > 0
            /\ jobs'[j] # jobs[j] /\ faults' = faults
            /\ users[jobs[j].userId].exists )
          => /\ jobs'[j].state = "completed"
             /\ jobs'[j].attemptsMade = jobs[j].attemptsMade
             /\ \E a \in auditLog' \ auditLog : a.job = j]_vars

\* a job has completed in its first attempt with its ledger write and its audit
\* record although the notifications queue rejected its xp_gained
C28_Witness ==
  \E j \in ReqIds :
    /\ jobs[j].state = "completed" /\ jobs[j].notifyFailed = 1
    /\ jobs[j].attemptsMade = 0 /\ jobs[j].writes = 1
    /\ users[jobs[j].userId].xp = xp0[jobs[j].userId] + jobs[j].xp
    /\ \E a \in auditLog : a.job = j
    /\ NotificationsOf(j) = {}

====
